---- MODULE Spec2Model ----
(***************************************************************************)
(* bilingualsub: the pipeline orchestrator (api/pipeline.py), the burn     *)
(* route and the event stream (api/routes.py) and the translation engine  *)
(* (core/translator.py), as state machines over one Job record.           *)
(***************************************************************************)
EXTENDS Integers, Sequences, FiniteSets, TLC

(***************************************************************************)
(* Bounds of the model.                                                    *)
(***************************************************************************)
\* entries of the subtitle a standalone translate_subtitle call is given
MaxEntries == 21
\* entries of the subtitle transcription hands to a pipeline run
MaxJobEntries == 1
\* burn requests the job accepts after its pipeline run
MaxBurns == 1
\* burn requests a completed job accepts
MaxReburns == 2
\* keepalive timeouts of the event stream
MaxPings == 1
\* connections a client opens to the event stream
MaxConnects == 2
\* lines of a response given to _parse_batch_response, and the largest
\* expected_count and line number tried
MaxParseLines == 3
\* rows of the editor given to retranslate_entries; their indices are
\* 1..MaxRows, and MaxRows + 1 is an index no row has
MaxRows == 2
\* target indices of one retranslation request
MaxTargets == 2
\* entries of each list given to merge_subtitles
MaxMergeLen == 2
\* entries of a Subtitle given to serialize_srt
MaxSrtEntries == 2
\* entries of a list given to the Subtitle constructor
MaxConstructed == 2
\* subtitle-trigger requests a client posts for the job
MaxTriggers == 2
\* partial-retranslation requests a client posts for the job
MaxRetranslations == 2
\* chunks split_audio returns, segments of one chunk, the largest segment
\* time (in half seconds) and the longest chunk (in seconds)
MaxChunks == 2
MaxSegments == 2
MaxSegmentTime == 3
MaxChunkDuration == 2
\* jobs the manager creates, and readings of the clock that differ
MaxJobs == 2
MaxTicks == 3

(***************************************************************************)
(* Program constants.                                                      *)
(***************************************************************************)
BATCH_SIZE == 10
CONTEXT_SIZE == 3
LOOKAHEAD_SIZE == 3
MAX_RETRIES == 5
PARTIAL_CONTEXT_WINDOW == 2
JOB_TTL_SECONDS == 1800
CLEANUP_INTERVAL_SECONDS == 300

None == "None"
NoTime == -1

NoExc == [kind |-> None, msg |-> ""]

Min(a, b) == IF a <= b THEN a ELSE b
Max(a, b) == IF a >= b THEN a ELSE b

(***************************************************************************)
(* Progress values are Python floats; the model keeps them exact as        *)
(* normalised fractions n/d.                                               *)
(***************************************************************************)
RECURSIVE GCD(_, _)
GCD(a, b) == IF b = 0 THEN a ELSE GCD(b, a % b)

Frac(n, d) == LET g == GCD(n, d) IN
              IF n = 0 THEN [n |-> 0, d |-> 1] ELSE [n |-> n \div g, d |-> d \div g]
Num(v) == [n |-> v, d |-> 1]
NoProgress == [n |-> -1, d |-> 1]
FracLE(x, y) == x.n * y.d <= y.n * x.d
FracLT(x, y) == x.n * y.d < y.n * x.d

(***************************************************************************)
(* JobStatus, FileType, SSEEvent (api/constants.py).                       *)
(***************************************************************************)
JobStatus == <<"pending", "downloading", "download_complete", "transcribing",
               "translating", "merging", "burning", "completed", "failed">>
FileType == {"srt", "ass", "video", "audio", "source_video"}
SSEEvent == {"progress", "complete", "download_complete", "error", "ping"}

(***************************************************************************)
(* Exception kinds and their base classes.  A stage may raise any of them. *)
(***************************************************************************)
ExcKinds == {"DownloadError", "TranscriptionError", "TranslationError",
             "RateLimitError", "FFmpegError", "ValueError", "UnicodeError",
             "OSError", "PipelineError"}
\* str(exc) is the detail of the error; it can be empty
Exceptions == [kind : ExcKinds, msg : {"boom"}]
               \cup {[kind |-> "OSError", msg |-> ""]}

Base(k) == CASE k = "RateLimitError" -> "TranslationError"
             [] k = "UnicodeError" -> "ValueError"
             [] k = "PipelineError" -> "ApiError"
             [] OTHER -> "Exception"

\* faulty variant: the table is matched on the exact class, not by isinstance
exact_class(k, t) == k = t

RECURSIVE isinstance(_, _)
isinstance(k, t) == IF k = t THEN TRUE
                    ELSE IF k = "Exception" THEN FALSE
                    ELSE isinstance(Base(k), t)

\* _ERROR_MAP, in insertion order
ERROR_MAP == <<
  [type |-> "DownloadError",      code |-> "download_failed",
   message |-> "Failed to download video"],
  [type |-> "TranscriptionError", code |-> "transcription_failed",
   message |-> "Failed to transcribe audio"],
  [type |-> "TranslationError",   code |-> "translation_failed",
   message |-> "Failed to translate subtitles"],
  [type |-> "FFmpegError",        code |-> "burn_failed",
   message |-> "Failed to burn subtitles into video"],
  [type |-> "ValueError",         code |-> "invalid_input",
   message |-> "Invalid input"] >>

RECURSIVE scan_error_map(_, _)
scan_error_map(exc, n) ==
  IF n > Len(ERROR_MAP)
  THEN [code |-> "pipeline_failed", message |-> "Unexpected pipeline error",
        detail |-> exc.msg]
  ELSE IF isinstance(exc.kind, ERROR_MAP[n].type)
       THEN [code |-> ERROR_MAP[n].code, message |-> ERROR_MAP[n].message,
             detail |-> exc.msg]
       ELSE scan_error_map(exc, n + 1)

to_pipeline_error(exc) == scan_error_map(exc, 1)

(***************************************************************************)
(* State.                                                                  *)
(***************************************************************************)
VARIABLES
  job,        \* the Job record: status, progress, current_step, error_*,
              \* output_files, event_queue (the queue object it refers to)
  req,        \* the request parameters of the job
  queues,     \* the asyncio.Queue objects allocated so far, by identity
  runs,       \* the orchestrator tasks started for the job, in start order
  tr,         \* the locals of the translate_subtitle call in progress
  trLog,      \* history: what that call asked of the model and reported
  con,        \* the event_generator of the job's event stream
  appended,   \* history: per queue, every event put on it
  delivered,  \* history: the events the stream has yielded, in order
  runLog,     \* history: per run, the events it put and the statuses it set
  stageLog,   \* history: the stage calls of the pipeline run
  call        \* a call of one function made on its own: arguments, outcome

vars == <<job, req, queues, runs, tr, trLog, con, appended, delivered,
          runLog, stageLog, call>>

(***************************************************************************)
(* The mutable objects a handler touches, as one value W that the helpers  *)
(* below transform: the Job, the queue objects, and the history of what    *)
(* was put and by which run.                                               *)
(***************************************************************************)
World == [job |-> job, queues |-> queues, appended |-> appended,
          runLog |-> runLog, con |-> con]

Commit(w) == /\ job' = w.job
             /\ queues' = w.queues
             /\ appended' = w.appended
             /\ runLog' = w.runLog
             /\ con' = w.con

Event(event, status, progress, step, message, code, detail) ==
  [event |-> event, status |-> status, progress |-> progress,
   current_step |-> step, message |-> message, code |-> code,
   detail |-> detail]

\* faulty variant: the item is put at the head of the queue
put_nowait_front(w, r, ev, wakes) ==
  LET q == w.job.event_queue IN
  [w EXCEPT !.queues[q] = <<ev>> \o @,
            !.appended[q] = Append(@, [ev |-> ev, run |-> r]),
            !.runLog[r].events = Append(@, ev),
            !.con.woken = IF w.con.pc = "waiting" /\ w.con.q = q
                          THEN @ \/ wakes ELSE @]

\* job.event_queue.put_nowait(ev), called by run r: the queue is the object
\* job.event_queue refers to at the time of the call; it is unbounded, so
\* the put never blocks and never raises.  A getter waiting on that queue is
\* woken; asyncio.Queue is not thread-safe, and a put made off the event
\* loop (the translation callback) leaves the item in the queue but may
\* fail to wake the loop (wakes = FALSE).
put_nowait(w, r, ev, wakes) ==
  LET q == w.job.event_queue IN
  [w EXCEPT !.queues[q] = Append(@, ev),
            !.appended[q] = Append(@, [ev |-> ev, run |-> r]),
            !.runLog[r].events = Append(@, ev),
            !.con.woken = IF w.con.pc = "waiting" /\ w.con.q = q
                          THEN @ \/ wakes ELSE @]

set_status(w, r, status) ==
  [w EXCEPT !.job.status = status,
            !.runLog[r].statuses = Append(@, status)]

send_progress_from(w, r, status, progress, current_step, message, wakes) ==
  LET w1 == set_status(w, r, status)
      w2 == [w1 EXCEPT !.job.progress = progress,
                       !.job.current_step = current_step]
  IN put_nowait(w2, r, Event("progress", status, progress, current_step,
                             message, None, None), wakes)

\* _send_progress called on the event loop
send_progress(w, r, status, progress, current_step, message) ==
  send_progress_from(w, r, status, progress, current_step, message, TRUE)

\* faulty variant: failing the job also resets its output map
send_error_clearing_outputs(w, r, code, message, detail) ==
  LET w1 == [w EXCEPT !.job.status = "failed",
                      !.runLog[r].statuses = Append(@, "failed"),
                      !.job.error_code = code,
                      !.job.error_message = message,
                      !.job.error_detail = detail,
                      !.job.output_files = [k \in {} |-> None]]
  IN [w1 EXCEPT !.queues[w.job.event_queue] =
                   Append(@, Event("error", None, NoProgress, None, message,
                                   code, detail)),
                !.appended[w.job.event_queue] =
                   Append(@, [ev |-> Event("error", None, NoProgress, None,
                                           message, code, detail), run |-> r]),
                !.runLog[r].events =
                   Append(@, Event("error", None, NoProgress, None, message,
                                   code, detail))]

send_error(w, r, code, message, detail) ==
  LET w1 == set_status(w, r, "failed")
      w2 == [w1 EXCEPT !.job.error_code = code,
                       !.job.error_message = message,
                       !.job.error_detail = detail]
  IN put_nowait(w2, r, Event("error", None, NoProgress, None, message,
                             code, detail), TRUE)

\* faulty variant: the job keeps the progress of its last progress event
send_complete_keeping_progress(w, r) ==
  put_nowait(set_status(w, r, "completed"), r,
             Event("complete", "completed", Num(100), None, None, None, None),
             TRUE)

send_complete(w, r) ==
  LET w1 == set_status(w, r, "completed")
      w2 == [w1 EXCEPT !.job.progress = Num(100)]
  IN put_nowait(w2, r, Event("complete", "completed", Num(100), None, None,
                             None, None), TRUE)

set_output(w, ft, path) ==
  [w EXCEPT !.job.output_files = [k \in (DOMAIN @) \cup {ft} |->
                                    IF k = ft THEN path ELSE @[k]]]

\* history: the exception that reached the except clauses of run r, and the
\* output map at that point
caught(w, r, exc) ==
  [w EXCEPT !.runLog[r].exc = exc, !.runLog[r].outputs = w.job.output_files]

\* the except clauses of run_burn: every Exception is converted and sent
burn_except(w, r, exc) ==
  LET e == to_pipeline_error(exc) IN
  [w |-> send_error(caught(w, r, exc), r, e.code, e.message, e.detail),
   pc |-> "done"]

\* the except clauses of run_pipeline: PipelineError is re-raised, every
\* other Exception is converted and sent
pipeline_except(w, r, exc) ==
  IF isinstance(exc.kind, "PipelineError")
  THEN [w |-> caught(w, r, exc), pc |-> "raised"]
  ELSE LET e == to_pipeline_error(exc) IN
       [w |-> send_error(caught(w, r, exc), r, e.code, e.message, e.detail),
        pc |-> "done"]

(***************************************************************************)
(* Subtitle entries (core/subtitle.py).  A text is its sequence of lines;  *)
(* a line is the original or the translated wording of an entry, or a line *)
(* of whitespace.  "\n".join is concatenation, "".strip() is <<>>.         *)
(***************************************************************************)
BlankLine == <<"b", 0>>
\* the line with no character at all, and the wording of OrigText(p) behind
\* leading whitespace
EmptyLine == <<"e", 0>>
PaddedLine(p) == <<"p", p>>
is_space(line) == line[1] \in {"b", "e"}
OrigText(p) == << <<"o", p>> >>
TransText(p) == << <<"t", p>> >>

\* not text.strip()
is_blank(text) == \A n \in 1..Len(text) : is_space(text[n])

\* text.strip() of a one-line text
strip_line(line) == IF line = BlankLine THEN <<>> ELSE <<line>>

\* SubtitleEntry.__post_init__
entry_valid(e) == /\ e.start < e.end
                  /\ e.index >= 1
                  /\ ~is_blank(e.text)

\* faulty variant: the time ranges are not compared
subtitle_valid_any_timing(es) ==
  /\ Len(es) > 0
  /\ \A n \in 1..Len(es) : es[n].index = n

\* Subtitle.__post_init__
subtitle_valid(es) ==
  /\ Len(es) > 0
  /\ \A n \in 1..Len(es) : es[n].index = n
  /\ \A n \in 1..(Len(es) - 1) : ~(es[n].end > es[n + 1].start)

\* the Subtitle transcribe_audio returns for K segments
Transcript(K) == [p \in 1..K |-> [index |-> p, start |-> 5 * (p - 1),
                                   end |-> 5 * (p - 1) + 4,
                                   text |-> OrigText(p)]]

(***************************************************************************)
(* The translation engine (core/translator.py).                            *)
(***************************************************************************)
NoMatch == -1
NoCall == [fn |-> None, pc |-> "idle"]
NoPrompt == [mode |-> None, context |-> <<>>, lines |-> <<>>,
             lookahead |-> <<>>]

TrIdle == [pc |-> "idle", caller |-> None, entries |-> <<>>, i |-> 0,
           attempt |-> 0, j |-> 0, partial |-> <<>>,
           translated_texts |-> <<>>, retry_after |-> 0, exc |-> NoExc,
           result |-> <<>>]

TrLogInit == [clean |-> TRUE, clean_calls |-> 0, progress_calls |-> <<>>,
              batches |-> <<>>, last_prompt |-> NoPrompt,
              last_response |-> None, spent |-> FALSE,
              discarded |-> FALSE]

\* What translator.run(prompt) can do: raise, or return a content that is
\* empty, carries the provider's rate-limit marker (with or without a
\* parsable "try again in <m>m<s>s"), or is a list of lines, each either
\* "<num><sep><text>" or not of that shape (num = NoMatch).
Raises == [raises |-> TRUE, marker |-> FALSE, has_delay |-> FALSE,
           minutes |-> 0, seconds |-> 0, lines |-> <<>>]
Content(lines) == [Raises EXCEPT !.raises = FALSE, !.lines = lines]
RateLimited(has_delay, m, sec) ==
  [Raises EXCEPT !.raises = FALSE, !.marker = TRUE, !.has_delay = has_delay,
                 !.minutes = m, !.seconds = sec]
RateLimitResponses == {RateLimited(FALSE, 0, 0), RateLimited(TRUE, 1, 6)}

\* the answer the prompt asks for: line n carries the translation of the
\* n-th entry of the batch
GoodLines(batch) == [n \in 1..Len(batch) |->
                       [num |-> n, text |-> <<"t", batch[n].index>>]]

BatchResponses(batch) ==
  {Raises, Content(<<>>)} \cup RateLimitResponses
  \cup {Content(GoodLines(batch)),
        \* the last numbered line is missing
        Content(SubSeq(GoodLines(batch), 1, Len(batch) - 1)),
        \* the first numbered line has whitespace for text
        Content([GoodLines(batch) EXCEPT ![1].text = BlankLine])}

SingleResponses(entry) ==
  {Raises, Content(<<>>), Content(<< [num |-> NoMatch, text |-> BlankLine] >>)}
  \cup RateLimitResponses
  \cup {Content(<< [num |-> NoMatch, text |-> <<"t", entry.index>>] >>)}

\* _check_rate_limit: the retry_after of the RateLimitError it raises, or
\* NoTime when it returns
check_rate_limit(resp) ==
  IF ~resp.marker THEN NoTime
  ELSE IF resp.has_delay THEN resp.minutes * 60 + resp.seconds
  ELSE 60

\* faulty variant: the content is tested before it is stripped
content_empty_unstripped(resp) == ~resp.marker /\ resp.lines = <<>>

\* response.content.strip() is empty
content_empty(resp) ==
  ~resp.marker /\ \A n \in 1..Len(resp.lines) : resp.lines[n].text = BlankLine
                                               /\ resp.lines[n].num = NoMatch

\* faulty variant: the first line of a number is kept
RECURSIVE parse_lines_keep_first(_, _, _)
parse_lines_keep_first(lines, n, translations) ==
  IF n > Len(lines) THEN translations
  ELSE IF lines[n].num = NoMatch \/ lines[n].num \in DOMAIN translations
  THEN parse_lines_keep_first(lines, n + 1, translations)
  ELSE parse_lines_keep_first(lines, n + 1,
         [k \in (DOMAIN translations) \cup {lines[n].num} |->
            IF k = lines[n].num THEN strip_line(lines[n].text)
            ELSE translations[k]])

\* _parse_batch_response: the dict of the matching lines (a later line
\* replaces an earlier one of the same number), then the count and key checks
RECURSIVE parse_lines(_, _, _)
parse_lines(lines, n, translations) ==
  IF n > Len(lines) THEN translations
  ELSE IF lines[n].num = NoMatch THEN parse_lines(lines, n + 1, translations)
  ELSE parse_lines(lines, n + 1,
         [k \in (DOMAIN translations) \cup {lines[n].num} |->
            IF k = lines[n].num THEN strip_line(lines[n].text)
            ELSE translations[k]])

\* response_text.strip(): trailing whitespace goes, so whitespace-only lines
\* at the end are dropped and a last line "<num><sep>" followed by
\* whitespace only keeps no text and no longer matches the pattern
RECURSIVE strip_content(_)
strip_content(lines) ==
  IF Len(lines) = 0 THEN lines
  ELSE LET last == lines[Len(lines)] IN
       IF last.text # BlankLine THEN lines
       ELSE IF last.num = NoMatch
       THEN strip_content(SubSeq(lines, 1, Len(lines) - 1))
       ELSE [lines EXCEPT ![Len(lines)].num = NoMatch]

parse_batch_response(lines, expected_count) ==
  LET translations == parse_lines(strip_content(lines), 1, <<>>) IN
  IF Cardinality(DOMAIN translations) # expected_count
  THEN [ok |-> FALSE, texts |-> <<>>]
  ELSE IF \E k \in 1..expected_count : k \notin DOMAIN translations
  THEN [ok |-> FALSE, texts |-> <<>>]
  ELSE [ok |-> TRUE, texts |-> [k \in 1..expected_count |-> translations[k]]]

\* faulty variant: the response is parsed without the rate-limit check
translate_batch_unchecked(resp, n) ==
  IF resp.raises THEN [r |-> "error", texts |-> <<>>, retry_after |-> 0]
  ELSE IF content_empty(resp)
  THEN [r |-> "error", texts |-> <<>>, retry_after |-> 0]
  ELSE LET parsed == parse_batch_response(resp.lines, n) IN
       IF parsed.ok THEN [r |-> "ok", texts |-> parsed.texts, retry_after |-> 0]
       ELSE [r |-> "error", texts |-> <<>>, retry_after |-> 0]

\* _translate_batch after translator.run: "ok" with the texts, "rate" with
\* the retry_after of the RateLimitError, or "error" (TranslationError, or
\* the exception of the model service)
translate_batch(resp, n) ==
  IF resp.raises THEN [r |-> "error", texts |-> <<>>, retry_after |-> 0]
  ELSE IF content_empty(resp)
  THEN [r |-> "error", texts |-> <<>>, retry_after |-> 0]
  ELSE IF check_rate_limit(resp) # NoTime
  THEN [r |-> "rate", texts |-> <<>>, retry_after |-> check_rate_limit(resp)]
  ELSE LET parsed == parse_batch_response(resp.lines, n) IN
       IF parsed.ok THEN [r |-> "ok", texts |-> parsed.texts, retry_after |-> 0]
       ELSE [r |-> "error", texts |-> <<>>, retry_after |-> 0]

\* the locals of the loop body of translate_subtitle
Batch(t) == SubSeq(t.entries, t.i + 1, Min(t.i + BATCH_SIZE, Len(t.entries)))

Context(t) ==
  LET context_start == Max(0, t.i - CONTEXT_SIZE) IN
  IF t.i > 0
  THEN [n \in 1..(t.i - context_start) |->
          <<t.entries[context_start + n].text,
            t.translated_texts[context_start + n]>>]
  ELSE <<>>

\* faulty variant: the lookahead starts at the last entry of the batch
Lookahead_from_batch(t) ==
  LET lookahead_end == Min(t.i + BATCH_SIZE + LOOKAHEAD_SIZE, Len(t.entries)) IN
  IF t.i + BATCH_SIZE < Len(t.entries)
  THEN [n \in 1..(lookahead_end - (t.i + BATCH_SIZE) + 1) |->
          t.entries[t.i + BATCH_SIZE + n - 1].text]
  ELSE <<>>

Lookahead(t) ==
  LET lookahead_end == Min(t.i + BATCH_SIZE + LOOKAHEAD_SIZE, Len(t.entries)) IN
  IF t.i + BATCH_SIZE < Len(t.entries)
  THEN [n \in 1..(lookahead_end - (t.i + BATCH_SIZE)) |->
          t.entries[t.i + BATCH_SIZE + n].text]
  ELSE <<>>

BatchPrompt(t) ==
  [mode |-> "batch", context |-> Context(t),
   lines |-> [n \in 1..Len(Batch(t)) |-> <<n, Batch(t)[n].text>>],
   lookahead |-> Lookahead(t)]

SinglePrompt(entry) ==
  [mode |-> "single", context |-> <<>>, lines |-> << <<0, entry.text>> >>,
   lookahead |-> <<>>]

(***************************************************************************)
(* translate_subtitle, one step per call of the model service.  The call   *)
(* runs on a worker thread (asyncio.to_thread) when the pipeline makes it. *)
(***************************************************************************)
LogCall(log, prompt) ==
  [log EXCEPT !.last_prompt = prompt,
              !.clean_calls = IF log.clean THEN @ + 1 ELSE 0]
LogUnclean(log) == [log EXCEPT !.clean = FALSE, !.clean_calls = 0]
\* what translator.run did in the call just made
LogResponse(log, resp) == [log EXCEPT !.last_response = resp]
\* a RateLimitError left _translate_one_by_one with results collected
LogDiscard(log, t) == [log EXCEPT !.discarded = @ \/ Len(t.partial) > 0]
\* a batch completed on the last attempt the retry loop allows
LogSpent(log, t) ==
  [log EXCEPT !.spent = @ \/ t.attempt = MAX_RETRIES]
\* faulty variant: the callback is given the size of the batch just added
LogProgress_batch_len(log, completed, total) ==
  LET n == Len(log.progress_calls)
      before == IF n = 0 THEN 0 ELSE log.progress_calls[n][1]
  IN [log EXCEPT !.progress_calls = Append(@, <<completed - before, total>>)]

LogProgress(log, completed, total) ==
  [log EXCEPT !.progress_calls = Append(@, <<completed, total>>)]
LogBatch(log, t) ==
  IF t.pc = "batch"
  THEN [log EXCEPT !.batches = Append(@, <<t.i + 1, t.i + Len(Batch(t))>>)]
  ELSE log

\* The callback run_pipeline passes (_make_translate_progress_cb), called on
\* the worker thread with the batch added (t is the call's locals after
\* it); a direct caller passes a recording callback.  The put made off the
\* event loop wakes the waiting getter, or leaves it asleep, or finds it
\* cancelled by the keepalive timeout between the done() test and
\* set_result: InvalidStateError, raised after the item is in the queue,
\* leaves translate_subtitle through the callback.
PutOutcomes == {"wakes", "sleeps", "raises"}

on_progress(t) ==
  LET completed == Len(t.translated_texts)
      total == Len(t.entries)
  IN IF tr.caller = "pipeline"
     THEN \E outcome \in PutOutcomes :
            /\ outcome = "raises" =>
                 con.pc = "waiting" /\ con.q = job.event_queue /\ ~con.woken
            /\ Commit(send_progress_from(World, 1, "translating",
                  IF total > 0 THEN Frac(50 * total + 20 * completed, total)
                  ELSE Num(50),
                  "translate",
                  "Translating subtitles (" \o ToString(completed) \o "/"
                    \o ToString(total) \o ")",
                  outcome = "wakes"))
            /\ tr' = IF outcome = "raises"
                     THEN [t EXCEPT !.pc = "raised",
                             !.exc = [kind |-> "InvalidStateError",
                                      msg |-> "boom"]]
                     ELSE t
     ELSE /\ UNCHANGED <<job, queues, appended, runLog, con>>
          /\ tr' = t

no_progress == UNCHANGED <<job, queues, appended, runLog, con>>

\* faulty variant: the batch loop steps one entry too far
batch_done_skipping(t, texts) ==
  LET ni == t.i + BATCH_SIZE + 1 IN
  [t EXCEPT !.translated_texts = @ \o texts, !.i = ni, !.attempt = 0,
            !.j = 0, !.partial = <<>>,
            !.pc = IF ni < Len(t.entries) THEN "batch" ELSE "build"]

\* translated_texts.extend(batch_translations); on_progress(...); break,
\* and the head of the next iteration of the batch loop
batch_done(t, texts) ==
  LET ni == t.i + BATCH_SIZE IN
  [t EXCEPT !.translated_texts = @ \o texts, !.i = ni, !.attempt = 0,
            !.j = 0, !.partial = <<>>,
            !.pc = IF ni < Len(t.entries) THEN "batch" ELSE "build"]

\* faulty variant: what the fallback had collected is kept in the result
rate_limited_keeping_partial(t, retry_after) ==
  IF t.attempt < MAX_RETRIES
  THEN [t EXCEPT !.pc = "sleep", !.retry_after = retry_after,
                 !.translated_texts = @ \o t.partial]
  ELSE [t EXCEPT !.pc = "raised",
                 !.exc = [kind |-> "TranslationError", msg |-> "boom"]]

\* faulty variant: the sleep is the default delay whatever the response said
rate_limited_default_sleep(t, retry_after) ==
  IF t.attempt < MAX_RETRIES
  THEN [t EXCEPT !.pc = "sleep", !.retry_after = 60]
  ELSE [t EXCEPT !.pc = "raised",
                 !.exc = [kind |-> "TranslationError", msg |-> "boom"]]

\* except RateLimitError: sleep and retry while attempt < _MAX_RETRIES,
\* raise TranslationError otherwise
rate_limited(t, retry_after) ==
  IF t.attempt < MAX_RETRIES
  THEN [t EXCEPT !.pc = "sleep", !.retry_after = retry_after]
  ELSE [t EXCEPT !.pc = "raised",
                 !.exc = [kind |-> "TranslationError", msg |-> "boom"]]

\* settings = get_settings(); translator = Agent(...): the construction of
\* the client can raise; then the first iteration of the batch loop
TranslateInit ==
  /\ tr.pc = "init"
  /\ \/ \E exc \in Exceptions :
          /\ tr' = [tr EXCEPT !.pc = "raised", !.exc = exc]
          /\ trLog' = trLog
     \/ LET t == [tr EXCEPT !.pc = IF Len(tr.entries) > 0 THEN "batch"
                                   ELSE "build"]
        IN /\ tr' = t
           /\ trLog' = LogBatch(trLog, t)
  /\ no_progress
  /\ UNCHANGED <<call, req, runs, delivered, stageLog>>

\* one _translate_batch call of the current attempt
TranslateBatch ==
  /\ tr.pc = "batch"
  /\ \E resp \in BatchResponses(Batch(tr)) :
       LET out == translate_batch(resp, Len(Batch(tr)))
           log == LogResponse(LogCall(trLog, BatchPrompt(tr)), resp)
       IN CASE out.r = "ok" ->
                 LET t == batch_done(tr, out.texts) IN
                 /\ on_progress(t)
                 /\ trLog' = LogBatch(LogProgress(LogSpent(log, tr),
                                 Len(t.translated_texts), Len(t.entries)), tr')
            [] out.r = "rate" ->
                 /\ tr' = rate_limited(tr, out.retry_after)
                 /\ trLog' = LogUnclean(log)
                 /\ no_progress
            [] OTHER ->
                 \* fall back to _translate_one_by_one within this attempt
                 /\ tr' = [tr EXCEPT !.pc = "one_by_one", !.j = 0,
                                     !.partial = <<>>]
                 /\ trLog' = LogUnclean(log)
                 /\ no_progress
  /\ UNCHANGED <<call, req, runs, delivered, stageLog>>

\* one iteration of the loop of _translate_one_by_one
TranslateOneByOne ==
  /\ tr.pc = "one_by_one"
  /\ LET batch == Batch(tr)
         entry == batch[tr.j + 1]
     IN \E resp \in SingleResponses(entry) :
       LET log == LogResponse(LogCall(trLog, SinglePrompt(entry)), resp)
           failed == [tr EXCEPT !.pc = "raised",
                        !.exc = [kind |-> "TranslationError", msg |-> "boom"]]
       IN IF resp.raises
          THEN tr' = failed /\ trLog' = log /\ no_progress
          ELSE IF check_rate_limit(resp) # NoTime
          THEN /\ tr' = rate_limited(tr, check_rate_limit(resp))
               /\ trLog' = LogDiscard(log, tr)
               /\ no_progress
          ELSE IF content_empty(resp)
          THEN tr' = failed /\ trLog' = log /\ no_progress
          ELSE LET results == Append(tr.partial, <<resp.lines[1].text>>) IN
               IF Len(results) < Len(batch)
               THEN /\ tr' = [tr EXCEPT !.partial = results, !.j = @ + 1]
                    /\ trLog' = log
                    /\ no_progress
               ELSE LET t == batch_done(tr, results) IN
                    /\ on_progress(t)
                    /\ trLog' = LogBatch(LogProgress(LogSpent(log, tr),
                                   Len(t.translated_texts), Len(t.entries)), tr')
  /\ UNCHANGED <<call, req, runs, delivered, stageLog>>

\* time.sleep(exc.retry_after) returns: the next attempt of the same batch
TranslateSleep ==
  /\ tr.pc = "sleep"
  /\ tr' = [tr EXCEPT !.pc = "batch", !.attempt = @ + 1]
  /\ trLog' = trLog
  /\ no_progress
  /\ UNCHANGED <<call, req, runs, delivered, stageLog>>

\* faulty variant: the entry keeps the text it had
translated_entry_same_text(entry, text) == entry

\* SubtitleEntry(index=entry.index, start=entry.start, end=entry.end,
\* text=text)
translated_entry(entry, text) ==
  [index |-> entry.index, start |-> entry.start, end |-> entry.end,
   text |-> text]

\* the SubtitleEntry of each (entry, text) pair, zip(strict=True), and the
\* Subtitle of them; a constructor that rejects raises ValueError
TranslateBuild ==
  /\ tr.pc = "build"
  /\ LET n == Len(tr.entries)
         translated_entries ==
           [p \in 1..Min(n, Len(tr.translated_texts)) |->
              translated_entry(tr.entries[p], tr.translated_texts[p])]
     IN IF /\ Len(tr.translated_texts) = n
           /\ \A p \in 1..n : entry_valid(translated_entries[p])
           /\ subtitle_valid(translated_entries)
        THEN tr' = [tr EXCEPT !.pc = "returned", !.result = translated_entries]
        ELSE tr' = [tr EXCEPT !.pc = "raised",
                      !.exc = [kind |-> "ValueError", msg |-> "boom"]]
  /\ trLog' = trLog
  /\ no_progress
  /\ UNCHANGED <<call, req, runs, delivered, stageLog>>

(***************************************************************************)
(* merge_subtitles (core/merger.py): "ok" with the merged entries, or the  *)
(* ValueError of a count mismatch or of a SubtitleEntry it cannot build.   *)
(***************************************************************************)
\* faulty variant: no count check, the pairs of zip without strict
merge_subtitles_zip_shortest(original, translated) ==
  LET merged == [p \in 1..Min(Len(original), Len(translated)) |->
                   [index |-> original[p].index,
                    start |-> original[p].start,
                    end |-> original[p].end,
                    text |-> translated[p].text \o original[p].text]]
  IN IF \A p \in 1..Len(merged) : entry_valid(merged[p])
     THEN [ok |-> TRUE, entries |-> merged]
     ELSE [ok |-> FALSE, entries |-> <<>>]

\* faulty variant: the original line comes first
merge_subtitles_original_first(original, translated) ==
  IF Len(original) # Len(translated)
  THEN [ok |-> FALSE, entries |-> <<>>]
  ELSE LET merged == [p \in 1..Len(original) |->
                        [index |-> original[p].index,
                         start |-> original[p].start,
                         end |-> original[p].end,
                         text |-> original[p].text \o translated[p].text]]
       IN IF \A p \in 1..Len(merged) : entry_valid(merged[p])
          THEN [ok |-> TRUE, entries |-> merged]
          ELSE [ok |-> FALSE, entries |-> <<>>]

merge_subtitles(original, translated) ==
  IF Len(original) # Len(translated)
  THEN [ok |-> FALSE, entries |-> <<>>]
  ELSE LET merged == [p \in 1..Len(original) |->
                        [index |-> original[p].index,
                         start |-> original[p].start,
                         end |-> original[p].end,
                         text |-> translated[p].text \o original[p].text]]
       IN IF \A p \in 1..Len(merged) : entry_valid(merged[p])
          THEN [ok |-> TRUE, entries |-> merged]
          ELSE [ok |-> FALSE, entries |-> <<>>]

(***************************************************************************)
(* run_pipeline (api/pipeline.py), one step per await.  The pipeline run   *)
(* is run 1 of the job.                                                    *)
(***************************************************************************)
RunInit(kind) == [kind |-> kind, pc |-> "created", video_path |-> None,
                  srt_content |-> None, original_sub |-> <<>>,
                  translated_sub |-> <<>>]
\* faulty variant: the run goes on from where it was after its terminal event
RunContinues(run, pc) == run
RunEnd(run, pc) == [RunInit(run.kind) EXCEPT !.pc = pc]
RunLogInit == [events |-> <<>>, statuses |-> <<>>, exc |-> NoExc,
               outputs |-> [k \in {} |-> None]]

\* history of the stage calls: a call made while another is active is an
\* overlap; a raise is recorded with the stage that raised
StageLogInit == [calls |-> <<>>, active |-> None, overlap |-> FALSE,
                 raised |-> None, exc |-> NoExc, after_raise |-> FALSE]
Call(log, stage) == [log EXCEPT !.calls = Append(@, stage), !.active = stage,
                                !.overlap = @ \/ log.active # None,
                                !.after_raise = @ \/ log.raised # None]
Return(log) == [log EXCEPT !.active = None]
Raise(log, exc) == [log EXCEPT !.raised = log.active, !.exc = exc,
                               !.active = None]

\* an exception reaches the except clauses of run_pipeline
PipelineFails(w, exc) ==
  LET h == pipeline_except(w, 1, exc) IN
  /\ Commit(h.w)
  /\ runs' = [runs EXCEPT ![1] = RunEnd(@, h.pc)]
  /\ stageLog' = Raise(stageLog, exc)

\* _acquire_video up to its await
PipelineStart ==
  /\ runs[1].pc = "created"
  /\ IF req.local_video_path
     THEN Commit(send_progress(World, 1, "downloading", Num(5), "upload",
                               "Processing uploaded file"))
     ELSE Commit(send_progress(World, 1, "downloading", Num(0), "download",
                               "Downloading video"))
  /\ runs' = [runs EXCEPT ![1].pc = "acquire"]
  /\ stageLog' = Call(stageLog, "acquire")
  /\ UNCHANGED <<call, req, tr, trLog, delivered>>

\* faulty variant: the trim is made whether or not the job has a bound
trim_always(r) == TRUE

\* _trim_if_needed trims unless both bounds are None
needs_trim(r) == ~(r.start_time = NoTime /\ r.end_time = NoTime)

\* _extract_audio_step up to its await
extract_audio_step(w) ==
  send_progress(w, 1, "downloading", Num(15), "extract_audio",
                "Extracting audio")

\* extract_video_metadata or download_youtube_video returns or raises; then
\* _trim_if_needed up to its await, or _extract_audio_step up to its await
AcquireReturn ==
  /\ runs[1].pc = "acquire"
  /\ \/ \E exc \in Exceptions : PipelineFails(World, exc)
     \/ LET video_path == IF req.local_video_path THEN "upload"
                          ELSE "video.mp4"
        IN IF ~needs_trim(req)
           THEN /\ Commit(extract_audio_step(World))
                /\ runs' = [runs EXCEPT ![1].pc = "extract_audio",
                                        ![1].video_path = video_path]
                /\ stageLog' = Call(Return(stageLog), "extract_audio")
           ELSE /\ Commit(send_progress(World, 1, "downloading", Num(12),
                                        "trim", "Trimming video"))
                /\ runs' = [runs EXCEPT ![1].pc = "trim",
                                        ![1].video_path = video_path]
                /\ stageLog' = Call(Return(stageLog), "trim")
  /\ UNCHANGED <<call, req, tr, trLog, delivered>>

\* trim_video returns or raises; then _extract_audio_step up to its await
TrimReturn ==
  /\ runs[1].pc = "trim"
  /\ \/ \E exc \in Exceptions : PipelineFails(World, exc)
     \/ /\ Commit(extract_audio_step(World))
        /\ runs' = [runs EXCEPT ![1].pc = "extract_audio",
                                ![1].video_path = "video_trimmed.mp4"]
        /\ stageLog' = Call(Return(stageLog), "extract_audio")
  /\ UNCHANGED <<call, req, tr, trLog, delivered>>

\* extract_audio returns or raises; then Step 2 up to its await
ExtractAudioReturn ==
  /\ runs[1].pc = "extract_audio"
  /\ \/ \E exc \in Exceptions : PipelineFails(World, exc)
     \/ /\ Commit(send_progress(set_output(World, "audio", "audio.mp3"), 1,
                                "transcribing", Num(20), "transcribe",
                                "Transcribing audio"))
        /\ runs' = [runs EXCEPT ![1].pc = "transcribe"]
        /\ stageLog' = Call(Return(stageLog), "transcribe")
  /\ UNCHANGED <<call, req, tr, trLog, delivered>>

\* transcribe_audio returns a Subtitle or raises; then Step 3 up to its
\* await: translate_subtitle starts on a worker thread
TranscribeReturns(limit) ==
  /\ runs[1].pc = "transcribe"
  /\ \/ /\ \E exc \in Exceptions : PipelineFails(World, exc)
        /\ UNCHANGED <<tr, trLog>>
     \/ \E K \in 1..limit :
        /\ Commit(send_progress(World, 1, "translating", Num(50), "translate",
                                "Translating subtitles"))
        /\ runs' = [runs EXCEPT ![1].pc = "translate",
                                ![1].original_sub = Transcript(K)]
        /\ stageLog' = Call(Return(stageLog), "translate")
        /\ tr' = [TrIdle EXCEPT !.pc = "init", !.caller = "pipeline",
                                !.entries = Transcript(K)]
        /\ trLog' = TrLogInit
  /\ UNCHANGED <<call, req, delivered>>

TranscribeReturn == TranscribeReturns(MaxJobEntries)
\* the same with a transcript of several batches
TranscribeReturnLong == TranscribeReturns(MaxEntries)

\* translate_subtitle returned; then Step 4 up to its await
TranslateReturn ==
  /\ runs[1].pc = "translate"
  /\ tr.pc = "returned"
  /\ Commit(send_progress(World, 1, "merging", Num(70), "merge",
                          "Merging bilingual subtitles"))
  /\ runs' = [runs EXCEPT ![1].pc = "merge", ![1].translated_sub = tr.result]
  /\ stageLog' = Call(Return(stageLog), "merge")
  /\ tr' = TrIdle
  /\ trLog' = TrLogInit
  /\ UNCHANGED <<call, req, delivered>>

\* translate_subtitle raised
TranslateRaise ==
  /\ runs[1].pc = "translate"
  /\ tr.pc = "raised"
  /\ PipelineFails(World, tr.exc)
  /\ tr' = TrIdle
  /\ trLog' = TrLogInit
  /\ UNCHANGED <<call, req, delivered>>

\* merge_subtitles returns or raises; then, with no await in between, the
\* rest of Step 4 (Subtitle, serialize_srt, write, record srt,
\* serialize_bilingual_ass, write, record ass) and Step 5
MergeReturn ==
  /\ runs[1].pc = "merge"
  /\ LET m == merge_subtitles(runs[1].original_sub, runs[1].translated_sub)
         serializing == Call(Return(stageLog), "serialize")
         with_srt == set_output(World, "srt", "subtitle.srt")
         with_ass == set_output(with_srt, "ass", "subtitle.ass")
         fails(w, exc, log) ==
           LET h == pipeline_except(w, 1, exc) IN
           /\ Commit(h.w)
           /\ runs' = [runs EXCEPT ![1] = RunEnd(@, h.pc)]
           /\ stageLog' = Raise(log, exc)
     IN \/ \E exc \in Exceptions : fails(World, exc, stageLog)
        \/ IF ~m.ok \/ ~subtitle_valid(m.entries)
           THEN fails(World, [kind |-> "ValueError", msg |-> "boom"], stageLog)
           ELSE \* serialize_srt or the write of subtitle.srt raises
                \/ \E exc \in Exceptions : fails(World, exc, serializing)
                \* serialize_bilingual_ass or the write of subtitle.ass raises
                \/ \E exc \in Exceptions : fails(with_srt, exc, serializing)
                \/ /\ Commit(send_complete(
                        set_output(with_ass, "source_video",
                                   runs[1].video_path), 1))
                   /\ runs' = [runs EXCEPT ![1] = RunEnd(@, "done")]
                   /\ stageLog' = Return(serializing)
  /\ UNCHANGED <<call, req, tr, trLog, delivered>>

(***************************************************************************)
(* burn_job (api/routes.py) and run_burn (api/pipeline.py).                *)
(***************************************************************************)
SrtContents == {"edited"}

\* what the write of subtitle_edited.srt raises, and what burn_subtitles
\* (utils/ffmpeg.py) and the thread that runs it raise
WriteExceptions == {[kind |-> "OSError", msg |-> ""]}
BurnExceptions == {[kind |-> "FFmpegError", msg |-> "boom"],
                   [kind |-> "PipelineError", msg |-> "boom"]}

\* faulty variant: no check of the status before the burn is started
burn_job_unguarded(w, rs, srt_content) ==
  IF "source_video" \notin DOMAIN w.job.output_files
  THEN [answer |-> "Pipeline not complete", w |-> w, runs |-> rs]
  ELSE [answer |-> "burning",
        w |-> [w EXCEPT !.job.status = "burning",
                        !.job.progress = [n |-> 0, d |-> 1],
                        !.job.event_queue = Len(w.queues) + 1,
                        !.queues = Append(@, <<>>),
                        !.appended = Append(@, <<>>),
                        !.runLog = Append(@, [events |-> <<>>,
                                              statuses |-> <<>>,
                                              exc |-> NoExc,
                                              outputs |-> [k \in {} |-> None]])],
        runs |-> Append(rs, [kind |-> "burn", pc |-> "created",
                             video_path |-> None, srt_content |-> srt_content,
                             original_sub |-> <<>>, translated_sub |-> <<>>])]

\* faulty variant: the burn run is given the outbox the job already has
burn_job_same_outbox(w, rs, srt_content) ==
  IF "source_video" \notin DOMAIN w.job.output_files
  THEN [answer |-> "Pipeline not complete", w |-> w, runs |-> rs]
  ELSE IF w.job.status = "burning"
  THEN [answer |-> "Burn already in progress", w |-> w, runs |-> rs]
  ELSE [answer |-> "burning",
        w |-> [w EXCEPT !.job.status = "burning",
                        !.job.progress = [n |-> 0, d |-> 1],
                        !.runLog = Append(@, [events |-> <<>>,
                                              statuses |-> <<>>,
                                              exc |-> NoExc,
                                              outputs |-> [k \in {} |-> None]])],
        runs |-> Append(rs, [kind |-> "burn", pc |-> "created",
                             video_path |-> None, srt_content |-> srt_content,
                             original_sub |-> <<>>, translated_sub |-> <<>>])]

\* The handler runs on the event loop without awaiting: its checks and its
\* assignments are one step.  Its result: the answer to the client
\* (InvalidRequestError or {"status": "burning"}), and the job, the queue
\* objects and the tasks after it.
burn_job(w, rs, srt_content) ==
  IF "source_video" \notin DOMAIN w.job.output_files
  THEN [answer |-> "Pipeline not complete", w |-> w, runs |-> rs]
  ELSE IF w.job.status = "burning"
  THEN [answer |-> "Burn already in progress", w |-> w, runs |-> rs]
  ELSE [answer |-> "burning",
        w |-> [w EXCEPT !.job.status = "burning",
                        !.job.progress = Num(0),
                        !.job.event_queue = Len(w.queues) + 1,
                        !.queues = Append(@, <<>>),
                        !.appended = Append(@, <<>>),
                        !.runLog = Append(@, RunLogInit)],
        runs |-> Append(rs, [RunInit("burn") EXCEPT
                               !.srt_content = srt_content])]

\* a client posts a burn request, while fewer than limit have been
\* accepted; a rejected request changes nothing
BurnRequest(limit) ==
  /\ Len(runs) - 1 < limit
  /\ \E srt_content \in SrtContents :
       LET out == burn_job(World, runs, srt_content) IN
       /\ Commit(out.w)
       /\ runs' = out.runs
  /\ UNCHANGED <<call, req, tr, trLog, delivered, stageLog>>

BurnJob == BurnRequest(MaxBurns)
BurnJobAgain == BurnRequest(MaxReburns)

\* run_burn up to its await: the lookup of the source video, the write of
\* subtitle_edited.srt (which can raise), _send_progress
BurnStart(r) ==
  /\ runs[r].kind = "burn"
  /\ runs[r].pc = "created"
  /\ \/ \E exc \in WriteExceptions :
          LET h == burn_except(World, r, exc) IN
          /\ Commit(h.w)
          /\ runs' = [runs EXCEPT ![r] = RunEnd(@, h.pc)]
     \/ IF "source_video" \notin DOMAIN job.output_files
        THEN LET h == burn_except(World, r,
                        [kind |-> "KeyError", msg |-> "boom"]) IN
             /\ Commit(h.w)
             /\ runs' = [runs EXCEPT ![r] = RunEnd(@, h.pc)]
        ELSE /\ Commit(send_progress(World, r, "burning", Num(50), "burn",
                                     "Burning subtitles"))
             /\ runs' = [runs EXCEPT ![r].pc = "burning",
                           ![r].video_path = job.output_files["source_video"]]
  /\ UNCHANGED <<call, req, tr, trLog, delivered, stageLog>>

\* burn_subtitles returns or raises
BurnReturn(r) ==
  /\ runs[r].kind = "burn"
  /\ runs[r].pc = "burning"
  /\ \/ \E exc \in BurnExceptions :
          LET h == burn_except(World, r, exc) IN
          /\ Commit(h.w)
          /\ runs' = [runs EXCEPT ![r] = RunEnd(@, h.pc)]
     \/ /\ Commit(send_complete(set_output(World, "video", "output.mp4"), r))
        /\ runs' = [runs EXCEPT ![r] = RunEnd(@, "done")]
  /\ UNCHANGED <<call, req, tr, trLog, delivered, stageLog>>

(***************************************************************************)
(* job_events (api/routes.py): the event_generator of one client.          *)
(***************************************************************************)
Ping == Event("ping", None, NoProgress, None, None, None, None)
NoEvent == Event(None, None, NoProgress, None, None, None, None)
ConInit == [pc |-> "closed", q |-> 0, woken |-> FALSE, connects |-> 0,
            pings |-> 0, last |-> NoEvent]

\* faulty variant: the stream also ends after download_complete
yield_event_until_download_complete(c, ev) ==
  [c EXCEPT !.pc = IF ev.event \in {"complete", "error", "download_complete"}
                   THEN "ended" ELSE "top",
            !.woken = FALSE,
            !.last = ev]

\* yield the event; return after a complete or an error event
yield_event(c, ev) ==
  [c EXCEPT !.pc = IF ev.event \in {"complete", "error"} THEN "ended"
                   ELSE "top",
            !.woken = FALSE,
            !.last = ev]

\* a client opens the stream
Connect ==
  /\ con.pc \in {"closed", "ended"}
  /\ con.connects < MaxConnects
  /\ con' = [con EXCEPT !.pc = "top", !.connects = @ + 1, !.last = NoEvent]
  /\ UNCHANGED <<job, call, req, queues, runs, tr, trLog, appended, delivered,
                 runLog, stageLog>>

\* job.event_queue.get() at the head of the loop: the queue is the object
\* job.event_queue refers to now; an item is returned at once, otherwise a
\* getter is registered on that queue
ConsumerGet ==
  /\ con.pc = "top"
  /\ LET q == job.event_queue IN
     IF queues[q] # <<>>
     THEN /\ queues' = [queues EXCEPT ![q] = Tail(@)]
          /\ delivered' = Append(delivered, [q |-> q, ev |-> Head(queues[q])])
          /\ con' = yield_event(con, Head(queues[q]))
     ELSE /\ con' = [con EXCEPT !.pc = "waiting", !.q = q, !.woken = FALSE]
          /\ UNCHANGED <<queues, delivered>>
  /\ UNCHANGED <<job, call, req, runs, tr, trLog, appended, runLog, stageLog>>

\* the getter is woken, or the loop gets to it: get() returns the head
ConsumerWake ==
  /\ con.pc = "waiting"
  /\ queues[con.q] # <<>>
  /\ queues' = [queues EXCEPT ![con.q] = Tail(@)]
  /\ delivered' = Append(delivered, [q |-> con.q, ev |-> Head(queues[con.q])])
  /\ con' = yield_event(con, Head(queues[con.q]))
  /\ UNCHANGED <<job, call, req, runs, tr, trLog, appended, runLog, stageLog>>

\* wait_for times out after SSE_KEEPALIVE_SECONDS with the getter not woken:
\* a ping is yielded
ConsumerTimeout ==
  /\ con.pc = "waiting"
  /\ ~con.woken
  /\ con.pings < MaxPings
  /\ con' = [con EXCEPT !.pc = "top", !.pings = @ + 1, !.last = Ping]
  /\ UNCHANGED <<job, call, req, queues, runs, tr, trLog, appended, delivered,
                 runLog, stageLog>>

(***************************************************************************)
(* The job: created pending with its pipeline task, an empty queue and no  *)
(* client connected.                                                       *)
(***************************************************************************)
JobInit == [status |-> "pending", progress |-> Num(0), current_step |-> None,
            error_code |-> None, error_message |-> None,
            error_detail |-> None, output_files |-> [k \in {} |-> None],
            event_queue |-> 1, source_lang |-> "en", target_lang |-> "zh-TW"]

Request(local_video_path, start_time, end_time) ==
  [local_video_path |-> local_video_path, start_time |-> start_time,
   end_time |-> end_time]
\* a remote video without bounds, and an upload with a start bound
Requests == {Request(FALSE, NoTime, NoTime), Request(TRUE, 10, NoTime)}

Init ==
  /\ job = JobInit
  /\ req \in Requests
  /\ queues = << <<>> >>
  /\ runs = << RunInit("pipeline") >>
  /\ tr = TrIdle
  /\ trLog = TrLogInit
  /\ con = ConInit
  /\ appended = << <<>> >>
  /\ delivered = <<>>
  /\ runLog = << RunLogInit >>
  /\ stageLog = StageLogInit
  /\ call = NoCall

Translate == \/ TranslateInit
             \/ TranslateBatch
             \/ TranslateOneByOne
             \/ TranslateSleep
             \/ TranslateBuild

Next ==
  \/ PipelineStart
  \/ AcquireReturn
  \/ TrimReturn
  \/ ExtractAudioReturn
  \/ TranscribeReturn
  \/ Translate
  \/ TranslateReturn
  \/ TranslateRaise
  \/ MergeReturn
  \/ BurnJob
  \/ \E r \in 1..Len(runs) : BurnStart(r) \/ BurnReturn(r)
  \/ Connect
  \/ ConsumerGet
  \/ ConsumerWake
  \/ ConsumerTimeout

Spec == Init /\ [][Next]_vars

(***************************************************************************)
(* translate_subtitle called directly, with a recording callback.          *)
(***************************************************************************)
InitTranslate ==
  /\ job = JobInit
  /\ req = [local_video_path |-> FALSE, start_time |-> NoTime,
            end_time |-> NoTime]
  /\ queues = << <<>> >>
  /\ runs = <<>>
  /\ \E K \in 1..MaxEntries :
       tr = [TrIdle EXCEPT !.pc = "init", !.caller = "direct",
                           !.entries = Transcript(K)]
  /\ trLog = TrLogInit
  /\ con = ConInit
  /\ appended = << <<>> >>
  /\ delivered = <<>>
  /\ runLog = <<>>
  /\ stageLog = StageLogInit
  /\ call = NoCall

SpecTranslate == InitTranslate /\ [][Translate]_vars

(***************************************************************************)
(* The job from the completion of its pipeline run on: burn requests, the  *)
(* burn runs and the event stream.  The initial state is the one the       *)
(* pipeline run of a remote video without bounds and with one subtitle     *)
(* entry leaves when nothing fails and no client has connected.            *)
(***************************************************************************)
CompletedWorld ==
  LET w0 == [job |-> JobInit, queues |-> << <<>> >>, appended |-> << <<>> >>,
             runLog |-> << RunLogInit >>, con |-> ConInit]
      w1 == send_progress(w0, 1, "downloading", Num(0), "download",
                          "Downloading video")
      w2 == extract_audio_step(w1)
      w3 == send_progress(set_output(w2, "audio", "audio.mp3"), 1,
                          "transcribing", Num(20), "transcribe",
                          "Transcribing audio")
      w4 == send_progress(w3, 1, "translating", Num(50), "translate",
                          "Translating subtitles")
      w5 == send_progress(w4, 1, "translating", Num(70), "translate",
                          "Translating subtitles (1/1)")
      w6 == send_progress(w5, 1, "merging", Num(70), "merge",
                          "Merging bilingual subtitles")
      w7 == set_output(set_output(set_output(w6, "srt", "subtitle.srt"),
                                  "ass", "subtitle.ass"),
                       "source_video", "video.mp4")
  IN send_complete(w7, 1)

InitBurn ==
  /\ job = CompletedWorld.job
  /\ req = Request(FALSE, NoTime, NoTime)
  /\ queues = CompletedWorld.queues
  /\ runs = << RunEnd(RunInit("pipeline"), "done") >>
  /\ tr = TrIdle
  /\ trLog = TrLogInit
  /\ con = ConInit
  /\ appended = CompletedWorld.appended
  /\ delivered = <<>>
  /\ runLog = CompletedWorld.runLog
  /\ stageLog = [StageLogInit EXCEPT
                   !.calls = <<"acquire", "extract_audio", "transcribe",
                               "translate", "merge", "serialize">>]
  /\ call = NoCall

NextBurn ==
  \/ BurnJobAgain
  \/ \E r \in 1..Len(runs) : BurnStart(r) \/ BurnReturn(r)
  \/ Connect
  \/ ConsumerGet
  \/ ConsumerWake
  \/ ConsumerTimeout

SpecBurn == InitBurn /\ [][NextBurn]_vars

(***************************************************************************)
(* Properties.  Histories are read through these.                          *)
(***************************************************************************)
Runs == 1..Len(runs)
Events(r) == runLog[r].events
Statuses(r) == runLog[r].statuses
IsTerminal(ev) == ev.event \in {"complete", "error"}
Ended(r) == runs[r].pc \in {"done", "raised"}
Last(s) == s[Len(s)]
ErrorEvents(r) == {n \in 1..Len(Events(r)) : Events(r)[n].event = "error"}
Succeeded(r) == /\ runs[r].pc = "done"
                /\ Len(Events(r)) > 0
                /\ Last(Events(r)).event = "complete"

(***************************************************************************)
(* C1.  Every exception a stage raises, PipelineError included, is caught  *)
(* by run_pipeline and run_burn: a run that has ended either completed, or *)
(* returned normally having failed the job (status failed, error_code,     *)
(* error_message and error_detail set) and appended exactly one error      *)
(* event.  No run ends by raising.                                         *)
(***************************************************************************)
StageExceptionAlwaysCaught ==
  \A r \in Runs :
    Ended(r) /\ ~Succeeded(r) =>
      /\ runs[r].pc = "done"
      /\ Cardinality(ErrorEvents(r)) = 1
      /\ Len(Statuses(r)) > 0 /\ Last(Statuses(r)) = "failed"
      /\ job.error_code # None
      /\ job.error_message # None
      /\ job.error_detail # None

\* a run has ended by raising to its caller
RunRaisedToCaller == \E r \in Runs : runs[r].pc = "raised"

(***************************************************************************)
(* C2.  Every change of job.status is a move forward along the chain       *)
(* pending .. completed, a move from a non-terminal status to failed, or   *)
(* completed to burning; a failed job never changes status again.          *)
(***************************************************************************)
Chain == SubSeq(JobStatus, 1, 8)
Pos(status) == CHOOSE n \in 1..Len(Chain) : Chain[n] = status
OnChain(status) == \E n \in 1..Len(Chain) : Chain[n] = status

LegalTransition(a, b) ==
  \/ OnChain(a) /\ OnChain(b) /\ Pos(a) < Pos(b)
  \/ a \notin {"completed", "failed"} /\ b = "failed"
  \/ a = "completed" /\ b = "burning"

StatusTransitionsLegal ==
  [][job.status' # job.status => LegalTransition(job.status, job.status')]_vars

\* a burn run has been accepted on a failed job and has completed it
FailedJobBurnedAgain ==
  \E r \in Runs : /\ r > 1
                  /\ Len(Statuses(r - 1)) > 0
                  /\ Last(Statuses(r - 1)) = "failed"
                  /\ job.status = "completed"

(***************************************************************************)
(* C3.  Within one run a complete or error event is the last event of the  *)
(* run: nothing is appended for the run after it, so a run appends at most *)
(* one terminal event.                                                     *)
(***************************************************************************)
TerminalEventIsLast ==
  \A r \in Runs : \A n \in 1..Len(Events(r)) :
    IsTerminal(Events(r)[n]) => n = Len(Events(r))

\* a run ended with a terminal event after other events, and a later run
\* has appended events of its own since
TerminalThenLaterRun ==
  \E r \in Runs : /\ Len(Events(r)) >= 2
                  /\ IsTerminal(Last(Events(r)))
                  /\ r < Len(runs)
                  /\ Len(Events(r + 1)) >= 1

(***************************************************************************)
(* C4.  The consumer receives the events of an outbox in the order they    *)
(* were appended, none lost and none duplicated: what it has been          *)
(* delivered from an outbox, followed by what is still in it, is what was  *)
(* appended to it, and that is the appending run's events in order.  The   *)
(* statuses those events carry (an error event standing for failed) are    *)
(* the statuses the run gave the job, in order.  The translation progress  *)
(* events, appended from the worker thread, are among them.                *)
(***************************************************************************)
DeliveredFrom(q) ==
  LET d == SelectSeq(delivered, LAMBDA x : x.q = q)
  IN [n \in 1..Len(d) |-> d[n].ev]
AppendedTo(q) == [n \in 1..Len(appended[q]) |-> appended[q][n].ev]
CarriedStatus(ev) == IF ev.event = "error" THEN "failed" ELSE ev.status

ConsumerSeesAppendOrder ==
  /\ \A q \in 1..Len(queues) :
       /\ DeliveredFrom(q) \o queues[q] = AppendedTo(q)
       /\ AppendedTo(q) = Events(q)
  /\ \A r \in Runs :
       [n \in 1..Len(Events(r)) |-> CarriedStatus(Events(r)[n])] = Statuses(r)

\* the consumer timed out once and has since been delivered the progress
\* event the translation callback appended for the last batch
DeliveredWorkerThreadEvent ==
  /\ con.pings >= 1
  /\ Len(delivered) >= 4
  /\ \E n \in 1..Len(delivered) :
       /\ delivered[n].ev.current_step = "translate"
       /\ delivered[n].ev.progress = Num(70)

(***************************************************************************)
(* C5.  While a burn run is in flight the job's status is burning, and a   *)
(* burn request arriving then is rejected with the job (status, progress,  *)
(* error fields, output map), its outbox and its runs unchanged; at most   *)
(* one burn run is in flight at any time.                                  *)
(***************************************************************************)
BurnsInFlight == {r \in Runs : runs[r].kind = "burn" /\ ~Ended(r)}

BurnWhileBurningRejected ==
  /\ Cardinality(BurnsInFlight) <= 1
  /\ BurnsInFlight # {} => job.status = "burning"
  /\ job.status = "burning" =>
       \A srt_content \in SrtContents :
         LET out == burn_job(World, runs, srt_content) IN
         /\ out.answer = "Burn already in progress"
         /\ out.w = World
         /\ out.runs = runs

\* a burn run is waiting for burn_subtitles and the job could take another
\* burn request
BurnInFlight ==
  /\ job.status = "burning"
  /\ \E r \in BurnsInFlight : runs[r].pc = "burning"
  /\ ENABLED BurnJobAgain

(***************************************************************************)
(* C6.  An accepted burn request installs a new, empty outbox before its   *)
(* run appends anything: an outbox only ever holds events of the run it    *)
(* was installed for.  As stated, the events of an ended burn run are a    *)
(* progress event with status burning followed by one terminal event.      *)
(***************************************************************************)
IsBurningProgress(ev) == ev.event = "progress" /\ ev.status = "burning"

BurnOutboxProgressThenTerminal ==
  /\ \A q \in 1..Len(queues) : \A n \in 1..Len(appended[q]) :
       appended[q][n].run = q
  /\ \A r \in Runs :
       runs[r].kind = "burn" /\ Ended(r) =>
         /\ Len(Events(r)) = 2
         /\ IsBurningProgress(Events(r)[1])
         /\ IsTerminal(Events(r)[2])

(***************************************************************************)
(* C6, amended.  The outbox installed for a burn run holds only events of  *)
(* that run: at most one progress event with status burning (none when     *)
(* writing the edited subtitle file fails), followed once the run has      *)
(* ended by exactly one terminal event; it is empty when the run starts.   *)
(***************************************************************************)
BurnOutboxOnlyOwnEvents ==
  /\ Len(queues) = Len(runs) /\ job.event_queue = Len(runs)
  /\ \A q \in 1..Len(queues) : \A n \in 1..Len(appended[q]) :
       appended[q][n].run = q
  /\ \A r \in Runs :
       runs[r].kind = "burn" =>
         LET evs == Events(r)
             progress == {n \in 1..Len(evs) : ~IsTerminal(evs[n])}
             terminal == {n \in 1..Len(evs) : IsTerminal(evs[n])}
         IN /\ runs[r].pc = "created" => appended[r] = <<>> /\ queues[r] = <<>>
            /\ Cardinality(progress) <= 1
            /\ \A n \in progress : n = 1 /\ IsBurningProgress(evs[n])
            /\ Cardinality(terminal) = IF Ended(r) THEN 1 ELSE 0
            /\ \A n \in terminal : n = Len(evs)

\* a second burn has ended with an error event alone while the outbox of
\* the first burn still holds that run's terminal event
ReburnFailedAtWrite ==
  /\ Len(runs) = 3
  /\ Ended(3)
  /\ Len(Events(3)) = 1
  /\ queues[2] # <<>> /\ IsTerminal(Last(queues[2]))

(***************************************************************************)
(* C7.  The stage invocations of a pipeline run are a prefix of acquire,   *)
(* [trim,] extract audio, transcribe, translate, merge, serialize (trim    *)
(* when the job has a bound); no stage is invoked while another is active  *)
(* or after a stage has raised; after DownloadError from acquisition       *)
(* neither transcribe nor translate was invoked and the job is failed with *)
(* code download_failed.                                                   *)
(***************************************************************************)
IsPrefix(s, t) == Len(s) <= Len(t) /\ s = SubSeq(t, 1, Len(s))
StageOrder ==
  <<"acquire">>
  \o (IF req.start_time # NoTime \/ req.end_time # NoTime THEN <<"trim">>
      ELSE <<>>)
  \o <<"extract_audio", "transcribe", "translate", "merge", "serialize">>

TableCode(kind) ==
  CASE kind = "DownloadError" -> "download_failed"
    [] kind = "TranscriptionError" -> "transcription_failed"
    [] kind \in {"TranslationError", "RateLimitError"} -> "translation_failed"
    [] kind = "FFmpegError" -> "burn_failed"
    [] kind \in {"ValueError", "UnicodeError"} -> "invalid_input"
    [] OTHER -> "pipeline_failed"

Failed(r) == runs[r].pc = "done" /\ runLog[r].exc # NoExc

ErrorFollowsTable ==
  \A r \in Runs :
    Failed(r) =>
      LET ev == Last(Events(r)) IN
      /\ ev.event = "error"
      /\ ev.code = TableCode(runLog[r].exc.kind)
      /\ ev.message # None
      /\ ev.detail = runLog[r].exc.msg
      /\ (\A r2 \in Runs : r2 > r => ~Failed(r2)) =>
           /\ job.error_code = ev.code
           /\ job.error_message = ev.message
           /\ job.error_detail = ev.detail

\* the pipeline run failed on a RateLimitError, recorded as translation_failed
RateLimitErrorRecorded ==
  /\ Failed(1)
  /\ runLog[1].exc.kind = "RateLimitError"
  /\ job.error_code = "translation_failed"

(***************************************************************************)
(* C9.  Failing a run leaves the output map as it was when the exception   *)
(* was caught: after the failure the job has exactly the outputs recorded  *)
(* before it, at the same locations, until a later run records more; no    *)
(* recorded output is ever removed or moved.                               *)
(***************************************************************************)
OutputsSurviveFailure ==
  \A r \in Runs :
    Failed(r) =>
      /\ \A k \in DOMAIN runLog[r].outputs :
           /\ k \in DOMAIN job.output_files
           /\ job.output_files[k] = runLog[r].outputs[k]
      /\ r = Len(runs) => job.output_files = runLog[r].outputs

\* the pipeline run failed after recording the audio and the srt file
FailedWithOutputsRecorded ==
  /\ Failed(1)
  /\ job.status = "failed"
  /\ DOMAIN job.output_files = {"audio", "srt"}

(***************************************************************************)
(* C10.  translate_subtitle on K >= 1 entries goes through the batches     *)
(* 10b+1 .. min(10b+10, K), b = 0, 1, .., in order: once its loop is over  *)
(* it has processed exactly ceil(K/10) of them, and when every batch       *)
(* succeeded in batch mode it has made exactly ceil(K/10) model calls.     *)
(***************************************************************************)
CeilTenth(K) == (K + 9) \div 10

BatchesPartitionEntries ==
  LET K == Len(tr.entries) IN
  /\ \A b \in 1..Len(trLog.batches) :
       trLog.batches[b] = <<10 * (b - 1) + 1, Min(10 * (b - 1) + 10, K)>>
  /\ Len(trLog.batches) <= CeilTenth(K)
  /\ tr.pc \in {"build", "returned"} =>
       /\ Len(trLog.batches) = CeilTenth(K)
       /\ trLog.clean => trLog.clean_calls = CeilTenth(K)

\* 21 entries translated in three batch-mode calls, the last of one entry
ThreeBatchesOfTwentyOne ==
  /\ Len(tr.entries) = 21
  /\ tr.pc = "returned"
  /\ trLog.clean
  /\ trLog.clean_calls = 3
  /\ trLog.batches = << <<1, 10>>, <<11, 20>>, <<21, 21>> >>

(***************************************************************************)
(* C11.  The prompt of the batch at offset i has no context when i = 0 and *)
(* otherwise the (original, translated) pairs of the up to 3 entries just  *)
(* before the batch, in order, with the translations produced for them; it *)
(* has no lookahead for the last batch and otherwise the texts of the up   *)
(* to 3 entries just after the batch, in order.                            *)
(***************************************************************************)
\* the offset of the batch a batch-mode prompt is for: its first numbered
\* line is the original text of entry i + 1
PromptOffset(P) == P.lines[1][2][1][2] - 1

ContextAndLookaheadAsStated ==
  LET P == trLog.last_prompt
      K == Len(tr.entries)
  IN P.mode = "batch" =>
       LET i == PromptOffset(P)
           first == IF i - 3 > 0 THEN i - 3 ELSE 0
           last == IF i + 10 + 3 < K THEN i + 10 + 3 ELSE K
       IN /\ i = 0 => P.context = <<>>
          /\ i > 0 =>
               /\ Len(P.context) = i - first
               /\ i <= Len(tr.translated_texts)
               /\ \A n \in 1..(i - first) :
                    P.context[n] = <<OrigText(first + n),
                                     tr.translated_texts[first + n]>>
          /\ i + 10 >= K => P.lookahead = <<>>
          /\ i + 10 < K =>
               /\ Len(P.lookahead) = last - (i + 10)
               /\ \A n \in 1..(last - (i + 10)) :
                    P.lookahead[n] = OrigText(i + 10 + n)

\* the second batch of 21 entries was asked for with the three pairs before
\* it as context and the one entry after it as lookahead
SecondBatchPrompt ==
  /\ Len(tr.entries) = 21
  /\ trLog.last_prompt.mode = "batch"
  /\ PromptOffset(trLog.last_prompt) = 10
  /\ Len(trLog.last_prompt.context) = 3
  /\ Len(trLog.last_prompt.lookahead) = 1

(***************************************************************************)
(* C12: the progress callback has been invoked once for each batch whose   *)
(* translations were added and for nothing else, so its calls number the   *)
(* completed batches; the j-th call carries (min(10j, K), K), which makes  *)
(* the completed counts strictly increasing; and when translate_subtitle   *)
(* returns there have been ceil(K / 10) calls, the last one (K, K).        *)
(***************************************************************************)
ProgressOncePerCompletedBatch ==
  LET K == Len(tr.entries)
      calls == trLog.progress_calls
  IN /\ Len(calls) = CeilTenth(Len(tr.translated_texts))
     /\ \A j \in 1..Len(calls) :
          calls[j] = <<(IF 10 * j < K THEN 10 * j ELSE K), K>>
     /\ \A j \in 1..(Len(calls) - 1) : calls[j][1] < calls[j + 1][1]
     /\ tr.pc = "returned" => /\ Len(calls) = CeilTenth(K)
                              /\ calls[Len(calls)] = <<K, K>>

\* 21 entries translated with some attempt that failed or was rate-limited
\* on the way: three calls
ThreeProgressCallsAfterRetry ==
  /\ tr.pc = "returned"
  /\ ~trLog.clean
  /\ trLog.progress_calls = << <<10, 21>>, <<20, 21>>, <<21, 21>> >>

(***************************************************************************)
(* C13: a batch gets at most 6 attempts (attempt 0..5).  A rate-limit      *)
(* signal on one of the first 5 leads to a sleep of exactly the delay the  *)
(* response signalled (60 when it names none), after which the same batch  *)
(* is attempted again in batch mode with the attempt number one higher and *)
(* nothing added to the result; on the 6th it raises TranslationError, and *)
(* a raised translation takes no further step, so no later batch is        *)
(* attempted.  The attempt number is 0 again whenever the offset moves to  *)
(* the next batch.                                                         *)
(***************************************************************************)
Signalled(resp) ==
  IF resp.has_delay THEN 60 * resp.minutes + resp.seconds ELSE 60

RetryState ==
  /\ tr.attempt \in 0..5
  /\ tr.pc = "sleep" => /\ tr.attempt < 5
                        /\ trLog.last_response.marker
                        /\ tr.retry_after = Signalled(trLog.last_response)
  /\ tr.pc = "raised" => ~ENABLED Translate

RetryStep ==
  /\ tr.pc = "sleep" => /\ tr'.pc = "batch"
                        /\ tr'.attempt = tr.attempt + 1
                        /\ tr'.i = tr.i
                        /\ tr'.translated_texts = tr.translated_texts
                        /\ trLog'.progress_calls = trLog.progress_calls
  /\ (tr.pc \in {"batch", "one_by_one"} /\ trLog'.last_response.marker) =>
       IF tr.attempt < 5
       THEN /\ tr'.pc = "sleep"
            /\ tr'.attempt = tr.attempt
            /\ tr'.i = tr.i
            /\ tr'.translated_texts = tr.translated_texts
       ELSE /\ tr'.pc = "raised"
            /\ tr'.exc.kind = "TranslationError"
  /\ tr'.i # tr.i => tr'.attempt = 0

RetryBudgetPerBatch == []RetryState /\ [][RetryStep]_vars

\* the second batch is rate-limited on its 6th attempt after the first
\* batch had used all 5 of its retries
SecondBatchExhaustsOwnBudget ==
  /\ trLog.spent
  /\ tr.i = 10
  /\ tr.attempt = 5
  /\ tr.pc = "raised"
  /\ trLog.last_response.marker

(***************************************************************************)
(* C14: a batch-mode call is followed by the one-by-one fallback exactly   *)
(* when it failed without a rate-limit signal: the model service raised,   *)
(* the response was empty, or its numbered lines are not exactly 1..N.     *)
(* The fallback starts in the same attempt (the attempt number and the     *)
(* offset are unchanged), asks for one entry per call with a prompt that   *)
(* has no context and no lookahead, and takes the entries of the batch in  *)
(* order; a rate-limited batch response never starts it.                   *)
(***************************************************************************)
NumberedKeys(lines) ==
  {lines[n].num : n \in {m \in 1..Len(lines) :
                           /\ lines[m].num # NoMatch
                           /\ ~(m = Len(lines) /\ lines[m].text = BlankLine)}}

BatchFailedWithoutRateLimit(resp, N) ==
  \/ resp.raises
  \/ /\ ~resp.marker
     /\ \/ \A n \in 1..Len(resp.lines) :
             resp.lines[n].num = NoMatch /\ resp.lines[n].text = BlankLine
        \/ NumberedKeys(resp.lines) # 1..N

FallbackStep ==
  /\ tr.pc = "batch" =>
       /\ trLog'.last_prompt.mode = "batch"
       /\ tr'.pc = "one_by_one" <=>
            BatchFailedWithoutRateLimit(trLog'.last_response,
              (IF tr.i + 10 < Len(tr.entries) THEN tr.i + 10
               ELSE Len(tr.entries)) - tr.i)
       /\ tr'.pc = "one_by_one" => /\ ~trLog'.last_response.marker
                                   /\ tr'.attempt = tr.attempt
                                   /\ tr'.i = tr.i
                                   /\ tr'.j = 0
                                   /\ tr'.partial = <<>>
  /\ tr.pc = "one_by_one" =>
       /\ trLog'.last_prompt =
            [mode |-> "single", context |-> <<>>,
             lines |-> << <<0, OrigText(tr.i + tr.j + 1)>> >>,
             lookahead |-> <<>>]
       /\ tr'.pc = "one_by_one" => /\ tr'.j = tr.j + 1
                                   /\ tr'.attempt = tr.attempt
                                   /\ tr'.i = tr.i
  /\ tr'.pc = "one_by_one" => tr.pc \in {"batch", "one_by_one"}

FallbackIffNonRateLimitFailure == [][FallbackStep]_vars

\* the fallback of the third attempt of the second batch asks for the last
\* entry of that batch
FallbackInThirdAttempt ==
  /\ tr.pc = "one_by_one"
  /\ tr.i = 10
  /\ tr.attempt = 2
  /\ tr.j = 9
  /\ trLog.last_prompt.mode = "single"
  /\ trLog.last_prompt.lines = << <<0, OrigText(19)>> >>

(***************************************************************************)
(* C15: a rate-limit signal for an entry of the one-by-one fallback is     *)
(* handled as in batch mode: below the 6th attempt it leads to the sleep   *)
(* of the signalled delay with nothing added to the result, and after the  *)
(* sleep the batch is asked for again in batch mode, whole, as the next    *)
(* attempt.  At every moment the accumulated result holds, for each entry  *)
(* of the completed batches and for no other, the translation of that      *)
(* entry at the position of the entry.                                     *)
(***************************************************************************)
ResultOnePerEntry ==
  LET K == Len(tr.entries)
      done == IF tr.i < K THEN tr.i ELSE K
  IN /\ Len(tr.translated_texts) = done
     /\ \A p \in 1..Len(tr.translated_texts) :
          tr.translated_texts[p] \in {TransText(p), <<>>}

FallbackRateLimitStep ==
  /\ (tr.pc = "one_by_one" /\ trLog'.last_response.marker) =>
       IF tr.attempt < 5
       THEN /\ tr'.pc = "sleep"
            /\ tr'.retry_after =
                 (IF trLog'.last_response.has_delay
                  THEN 60 * trLog'.last_response.minutes
                         + trLog'.last_response.seconds
                  ELSE 60)
            /\ tr'.translated_texts = tr.translated_texts
            /\ tr'.i = tr.i
       ELSE tr'.pc = "raised" /\ tr'.exc.kind = "TranslationError"
  /\ tr.pc = "sleep" => tr'.pc = "batch" /\ tr'.attempt = tr.attempt + 1
  /\ tr.pc = "batch" =>
       /\ trLog'.last_prompt.mode = "batch"
       /\ trLog'.last_prompt.lines =
            [n \in 1..((IF tr.i + 10 < Len(tr.entries) THEN tr.i + 10
                        ELSE Len(tr.entries)) - tr.i) |->
               <<n, OrigText(tr.i + n)>>]

FallbackRateLimitRetriesBatch ==
  []ResultOnePerEntry /\ [][FallbackRateLimitStep]_vars

\* 21 entries translated although a fallback was rate-limited after it had
\* collected results
TranslatedAfterDiscardedFallback ==
  /\ trLog.discarded
  /\ tr.pc = "returned"
  /\ Len(tr.entries) = 21
  /\ tr.translated_texts = [p \in 1..21 |-> TransText(p)]

(***************************************************************************)
(* _parse_batch_response called on its own: any response of up to          *)
(* MaxParseLines lines, each of them not of the numbered shape, or         *)
(* numbered 0..MaxParseLines with one of two wordings, or numbered 1       *)
(* with whitespace for text; any expected_count in 0..MaxParseLines.       *)
(***************************************************************************)
ParseLineKinds ==
  {[num |-> NoMatch, text |-> <<"t", 1>>], [num |-> 1, text |-> BlankLine]}
  \cup {[num |-> k, text |-> <<"t", v>>] : k \in 0..MaxParseLines, v \in 1..2}

RECURSIVE SeqsUpTo(_, _)
SeqsUpTo(S, n) ==
  IF n = 0 THEN {<<>>}
  ELSE LET shorter == SeqsUpTo(S, n - 1) IN
       shorter \cup {Append(q, x) : q \in {r \in shorter : Len(r) = n - 1},
                                    x \in S}

Idle ==
  /\ job = JobInit
  /\ req = Request(FALSE, NoTime, NoTime)
  /\ queues = << <<>> >>
  /\ runs = <<>>
  /\ tr = TrIdle
  /\ trLog = TrLogInit
  /\ con = ConInit
  /\ appended = << <<>> >>
  /\ delivered = <<>>
  /\ runLog = <<>>
  /\ stageLog = StageLogInit

InitParse ==
  /\ Idle
  /\ \E lines \in SeqsUpTo(ParseLineKinds, MaxParseLines),
        expected_count \in 0..MaxParseLines :
       call = [fn |-> "_parse_batch_response", pc |-> "called",
               lines |-> lines, expected_count |-> expected_count,
               result |-> <<>>, exc |-> NoExc]

ParseReturn ==
  /\ call.fn = "_parse_batch_response"
  /\ call.pc = "called"
  /\ LET parsed == parse_batch_response(call.lines, call.expected_count) IN
     call' = IF parsed.ok
             THEN [call EXCEPT !.pc = "returned", !.result = parsed.texts]
             ELSE [call EXCEPT !.pc = "raised",
                     !.exc = [kind |-> "TranslationError", msg |-> "boom"]]
  /\ UNCHANGED <<job, req, queues, runs, tr, trLog, con, appended, delivered,
                 runLog, stageLog>>

SpecParse == InitParse /\ [][ParseReturn]_vars

(***************************************************************************)
(* C16: _parse_batch_response(text, N) returns exactly when the numbers of *)
(* the matching lines are the set {1..N}, and raises TranslationError for  *)
(* every other set (a number missing, an extra number, 0 or above N);      *)
(* lines that do not match are ignored; what it returns are N texts, the   *)
(* k-th being the text of the last matching line numbered k.               *)
(***************************************************************************)
LastNumbered(lines, k) ==
  CHOOSE m \in 1..Len(lines) :
    /\ lines[m].num = k
    /\ ~(m = Len(lines) /\ lines[m].text = BlankLine)
    /\ \A n \in (m + 1)..Len(lines) :
         lines[n].num # k \/ (n = Len(lines) /\ lines[n].text = BlankLine)

ParseSucceedsIffKeysOneToN ==
  (call.fn = "_parse_batch_response" /\ call.pc # "called") =>
    LET N == call.expected_count IN
    /\ call.pc = "returned" <=> NumberedKeys(call.lines) = 1..N
    /\ call.pc = "returned" =>
         /\ Len(call.result) = N
         /\ \A k \in 1..N :
              call.result[k] =
                strip_line(call.lines[LastNumbered(call.lines, k)].text)
    /\ call.pc # "returned" =>
         call.pc = "raised" /\ call.exc.kind = "TranslationError"

\* "2) b", "1) a", "2) a" with N = 2 gives a, a: the later line 2 is kept
ParsedRepeatedNumber ==
  /\ call.fn = "_parse_batch_response"
  /\ call.pc = "returned"
  /\ call.expected_count = 2
  /\ Len(call.lines) = 3
  /\ call.lines[1] = [num |-> 2, text |-> <<"t", 2>>]
  /\ call.lines[3] = [num |-> 2, text |-> <<"t", 1>>]
  /\ call.result = << << <<"t", 1>> >>, << <<"t", 1>> >> >>

(***************************************************************************)
(* retranslate_entries (core/translator.py) called on its own, one step    *)
(* per call of the model service.  The rows carry indices 1..MaxRows, in   *)
(* any order and with repeats; row p has the p-th original wording.  The   *)
(* targets are drawn from 1..MaxRows + 1.  The model service answers the   *)
(* prompt of position p with its wording for p, bare or behind a number,   *)
(* unless the call raises, comes back empty or is rate-limited.            *)
(***************************************************************************)
RowKinds ==
  {[index |-> x, translated |-> <<>>] : x \in 1..MaxRows}
  \cup {[index |-> 1, translated |-> TransText(1)]}

RowLists ==
  {[p \in 1..Len(ks) |-> [index |-> ks[p].index, original |-> OrigText(p),
                          translated |-> ks[p].translated]] :
     ks \in SeqsUpTo(RowKinds, MaxRows)}

AnswerText(p) == <<"r", p>>
ClientExceptions == {[kind |-> "OSError", msg |-> "boom"],
                     [kind |-> "ValueError", msg |-> "boom"]}
RunExceptions == {[kind |-> "OSError", msg |-> "boom"]}

RetranslateResponses(model, p) ==
  {Content(<<>>), Content(<< [num |-> 1, text |-> BlankLine] >>)}
  \cup RateLimitResponses
  \cup {Content(<< [num |-> IF model[p] = "numbered" THEN p ELSE NoMatch,
                    text |-> AnswerText(p)] >>)}

\* faulty variant: a repeated target is kept as often as it was given
selected_as_given(q) == q

\* list(dict.fromkeys(selected_indices))
RECURSIVE ordered_unique(_)
ordered_unique(q) ==
  IF Len(q) = 0 THEN <<>>
  ELSE LET front == ordered_unique(SubSeq(q, 1, Len(q) - 1))
           x == q[Len(q)]
       IN IF \E n \in 1..Len(front) : front[n] = x THEN front
          ELSE Append(front, x)

\* {entry.index: i for i, entry in enumerate(entries)}: a later row of the
\* same index replaces an earlier one
position_by_index(entries) ==
  [x \in {entries[p].index : p \in 1..Len(entries)} |->
     CHOOSE p \in 1..Len(entries) :
       /\ entries[p].index = x
       /\ \A r \in (p + 1)..Len(entries) : entries[r].index # x]

\* faulty variant: only the first target is looked up before the loop
missing_first_only(entries, ordered_indices) ==
  SelectSeq(SubSeq(ordered_indices, 1, 1),
            LAMBDA x : x \notin DOMAIN position_by_index(entries))

\* missing = [idx for idx in ordered_indices if idx not in position_by_index]
missing(entries, ordered_indices) ==
  SelectSeq(ordered_indices,
            LAMBDA x : x \notin DOMAIN position_by_index(entries))

\* the prompt of one target: the rows before and after its position, the
\* row itself; a row without translation shows a placeholder
Shown(row, placeholder) ==
  <<row.original, IF row.translated = <<>> THEN placeholder
                  ELSE row.translated>>

RetranslatePrompt(entries, position) ==
  [prev |-> [n \in 1..(position - Max(1, position - PARTIAL_CONTEXT_WINDOW)) |->
               Shown(entries[Max(1, position - PARTIAL_CONTEXT_WINDOW) + n - 1],
                     "pending")],
   next |-> [n \in 1..(Min(Len(entries), position + PARTIAL_CONTEXT_WINDOW)
                        - position) |->
               Shown(entries[position + n], "pending")],
   target |-> Shown(entries[position], "empty")]

\* _strip_number_prefix(response_text).strip() of a one-line response
strip_number_prefix(line) == strip_line(line.text)

InitRetranslate ==
  /\ Idle
  /\ \E entries \in RowLists,
        selected_indices \in SeqsUpTo(1..(MaxRows + 1), MaxTargets) :
       \E model \in [1..Len(entries) -> {"plain", "numbered"}] :
         call = [fn |-> "retranslate_entries", pc |-> "called",
                 entries |-> entries, selected_indices |-> selected_indices,
                 model |-> model, ordered_indices |-> <<>>, n |-> 0,
                 attempt |-> 0, retry_after |-> 0,
                 results |-> [x \in {} |-> <<>>], exc |-> NoExc,
                 client |-> FALSE, model_called |-> FALSE,
                 prompted |-> <<>>, last_prompt |-> None,
                 last_response |-> None, spent |-> FALSE]

\* the checks of the payload before anything else
RetranslateValidate ==
  /\ call.fn = "retranslate_entries"
  /\ call.pc = "called"
  /\ LET ordered_indices == ordered_unique(call.selected_indices)
         invalid == [call EXCEPT !.pc = "raised",
                       !.exc = [kind |-> "ValueError", msg |-> "boom"]]
     IN call' = IF Len(call.entries) = 0 THEN invalid
                ELSE IF Len(call.selected_indices) = 0 THEN invalid
                ELSE IF Len(missing(call.entries, ordered_indices)) > 0
                THEN invalid
                ELSE [call EXCEPT !.pc = "client",
                                  !.ordered_indices = ordered_indices]
  /\ UNCHANGED <<job, req, queues, runs, tr, trLog, con, appended, delivered,
                 runLog, stageLog>>

\* settings = get_settings(); translator = Agent(...)
RetranslateClient ==
  /\ call.fn = "retranslate_entries"
  /\ call.pc = "client"
  /\ \/ \E exc \in ClientExceptions :
          call' = [call EXCEPT !.pc = "raised", !.exc = exc]
     \/ call' = [call EXCEPT !.pc = "run", !.client = TRUE]
  /\ UNCHANGED <<job, req, queues, runs, tr, trLog, con, appended, delivered,
                 runLog, stageLog>>

\* one attempt for the current target: translator.run(prompt) and what
\* follows it inside the try
RetranslateRun ==
  /\ call.fn = "retranslate_entries"
  /\ call.pc = "run"
  /\ LET target_index == call.ordered_indices[call.n + 1]
         position == position_by_index(call.entries)[target_index]
         c == [call EXCEPT
                 !.model_called = TRUE,
                 !.last_prompt = RetranslatePrompt(call.entries, position),
                 !.prompted = IF call.attempt = 0 THEN Append(@, target_index)
                              ELSE @]
         failed == [kind |-> "TranslationError", msg |-> "boom"]
     IN \/ \E exc \in RunExceptions :
             call' = [c EXCEPT !.pc = "raised", !.exc = exc,
                               !.last_response = Raises]
        \/ \E resp \in RetranslateResponses(call.model, position) :
             LET d == [c EXCEPT !.last_response = resp] IN
             call' =
               IF content_empty(resp)
               THEN [d EXCEPT !.pc = "raised", !.exc = failed]
               ELSE IF check_rate_limit(resp) # NoTime
               THEN IF call.attempt < MAX_RETRIES
                    THEN [d EXCEPT !.pc = "sleep",
                                   !.retry_after = check_rate_limit(resp)]
                    ELSE [d EXCEPT !.pc = "raised", !.exc = failed]
               ELSE LET cleaned == strip_number_prefix(resp.lines[1]) IN
                    IF cleaned = <<>>
                    THEN [d EXCEPT !.pc = "raised", !.exc = failed]
                    ELSE [d EXCEPT
                            !.results =
                               [x \in (DOMAIN call.results) \cup {target_index}
                                  |-> IF x = target_index THEN cleaned
                                      ELSE call.results[x]],
                            !.spent = @ \/ call.attempt = MAX_RETRIES,
                            !.n = @ + 1, !.attempt = 0,
                            !.pc = IF call.n + 1 < Len(call.ordered_indices)
                                   THEN "run" ELSE "returned"]
  /\ UNCHANGED <<job, req, queues, runs, tr, trLog, con, appended, delivered,
                 runLog, stageLog>>

\* time.sleep(exc.retry_after) returns: the next attempt for the same target
RetranslateSleep ==
  /\ call.fn = "retranslate_entries"
  /\ call.pc = "sleep"
  /\ call' = [call EXCEPT !.pc = "run", !.attempt = @ + 1, !.retry_after = 0]
  /\ UNCHANGED <<job, req, queues, runs, tr, trLog, con, appended, delivered,
                 runLog, stageLog>>

Retranslate == \/ RetranslateValidate
               \/ RetranslateClient
               \/ RetranslateRun
               \/ RetranslateSleep

SpecRetranslate == InitRetranslate /\ [][Retranslate]_vars

(***************************************************************************)
(* C17: a request whose rows are empty, whose target list is empty, or     *)
(* one of whose targets is the index of no row, is rejected as a whole:    *)
(* the call raises ValueError, and it never gets as far as creating the    *)
(* model client or calling the model, whatever the other targets are.      *)
(***************************************************************************)
RowIndices(entries) == {entries[p].index : p \in 1..Len(entries)}

Rejectable(c) ==
  \/ Len(c.entries) = 0
  \/ Len(c.selected_indices) = 0
  \/ \E n \in 1..Len(c.selected_indices) :
       c.selected_indices[n] \notin RowIndices(c.entries)

InvalidRequestRejectedUpFront ==
  (call.fn = "retranslate_entries" /\ Rejectable(call)) =>
    /\ call.pc \in {"called", "raised"}
    /\ call.pc = "raised" => call.exc.kind = "ValueError"
    /\ ~call.client
    /\ ~call.model_called
    /\ call.prompted = <<>>

\* targets 1 and 3 against rows 1 and 2: rejected although 1 is a row
RejectedWithValidTarget ==
  /\ call.fn = "retranslate_entries"
  /\ call.pc = "raised"
  /\ call.selected_indices = <<1, 3>>
  /\ RowIndices(call.entries) = {1, 2}
  /\ call.exc.kind = "ValueError"
  /\ ~call.client
  /\ ~call.model_called

(***************************************************************************)
(* C18: when retranslate_entries returns, the keys of the map are the      *)
(* distinct requested indices, each of them was put to the model as one    *)
(* request however often the list names it, and the text under a key is    *)
(* what the model answers for the row of that index.  The map is thus      *)
(* determined by the rows, the set of the targets and the model's          *)
(* answers: every ordering of the same targets returns the same map.       *)
(***************************************************************************)
Targets(c) == {c.selected_indices[n] : n \in 1..Len(c.selected_indices)}

RowOf(entries, x) ==
  CHOOSE p \in 1..Len(entries) :
    /\ entries[p].index = x
    /\ \A r \in 1..Len(entries) : entries[r].index = x => r <= p

ResultMapOfTargetSet ==
  (call.fn = "retranslate_entries" /\ call.pc = "returned") =>
    /\ DOMAIN call.results = Targets(call)
    /\ Len(call.prompted) = Cardinality(Targets(call))
    /\ {call.prompted[n] : n \in 1..Len(call.prompted)} = Targets(call)
    /\ \A x \in Targets(call) :
         call.results[x] = << AnswerText(RowOf(call.entries, x)) >>

\* targets 2, 1 against rows 1, 2: keys 1 and 2, asked for in the order 2, 1
ReturnedForReversedTargets ==
  /\ call.fn = "retranslate_entries"
  /\ call.pc = "returned"
  /\ call.selected_indices = <<2, 1>>
  /\ Len(call.entries) = 2
  /\ call.entries[1].index = 1
  /\ call.entries[2].index = 2
  /\ call.prompted = <<2, 1>>
  /\ DOMAIN call.results = {1, 2}

(***************************************************************************)
(* merge_subtitles called on its own with two lists of up to MaxMergeLen   *)
(* SubtitleEntry values, then called again with the two lists exchanged.   *)
(* An entry is one the constructor accepts: index 1 or 2 with the timing   *)
(* of that index, and a text of one line or of the same line twice.        *)
(***************************************************************************)
MergeTexts == {OrigText(1), TransText(1), OrigText(1) \o OrigText(1)}

MergeEntries ==
  {[index |-> x, start |-> 5 * (x - 1), end |-> 5 * (x - 1) + 4, text |-> t] :
     x \in 1..2, t \in MergeTexts}

MergeOutcome(original, translated) ==
  LET m == merge_subtitles(original, translated) IN
  IF m.ok THEN [pc |-> "returned", result |-> m.entries, exc |-> NoExc]
  ELSE [pc |-> "raised", result |-> <<>>,
        exc |-> [kind |-> "ValueError",
                 msg |-> IF Len(original) # Len(translated)
                         THEN "Entry count mismatch" ELSE "boom"]]

InitMerge ==
  /\ Idle
  /\ \E original \in SeqsUpTo(MergeEntries, MaxMergeLen),
        translated \in SeqsUpTo(MergeEntries, MaxMergeLen) :
       call = [fn |-> "merge_subtitles", pc |-> "called",
               original |-> original, translated |-> translated,
               result |-> <<>>, exc |-> NoExc,
               swapped |-> [pc |-> "idle", result |-> <<>>, exc |-> NoExc]]

\* merge_subtitles(original, translated)
MergeCall ==
  /\ call.fn = "merge_subtitles"
  /\ call.pc = "called"
  /\ LET out == MergeOutcome(call.original, call.translated) IN
     call' = [call EXCEPT !.pc = out.pc, !.result = out.result,
                          !.exc = out.exc]
  /\ UNCHANGED <<job, req, queues, runs, tr, trLog, con, appended, delivered,
                 runLog, stageLog>>

\* merge_subtitles(translated, original)
MergeSwappedCall ==
  /\ call.fn = "merge_subtitles"
  /\ call.pc # "called"
  /\ call.swapped.pc = "idle"
  /\ call' = [call EXCEPT
                !.swapped = MergeOutcome(call.translated, call.original)]
  /\ UNCHANGED <<job, req, queues, runs, tr, trLog, con, appended, delivered,
                 runLog, stageLog>>

SpecMerge == InitMerge /\ [][MergeCall \/ MergeSwappedCall]_vars

(***************************************************************************)
(* C19: merge_subtitles(A, B) returns exactly when A and B have the same   *)
(* number of entries; two empty lists give the empty list; when the        *)
(* numbers differ it raises the count-mismatch ValueError and there is no  *)
(* result.                                                                 *)
(***************************************************************************)
MergeReturnsIffSameLength ==
  (call.fn = "merge_subtitles" /\ call.pc # "called") =>
    /\ call.pc = "returned" <=> Len(call.original) = Len(call.translated)
    /\ (Len(call.original) = 0 /\ Len(call.translated) = 0) =>
         call.pc = "returned" /\ call.result = <<>>
    /\ call.pc # "returned" =>
         /\ call.pc = "raised"
         /\ call.exc = [kind |-> "ValueError", msg |-> "Entry count mismatch"]
         /\ call.result = <<>>

\* two entries against one: the count mismatch
MergeCountMismatch ==
  /\ call.fn = "merge_subtitles"
  /\ call.pc = "raised"
  /\ Len(call.original) = 2
  /\ Len(call.translated) = 1
  /\ call.exc.msg = "Entry count mismatch"

(***************************************************************************)
(* C20: for A and B of the same length merge_subtitles(A, B) has that      *)
(* length and, at every position p, the index, start and end of A[p]       *)
(* (those of B[p] are ignored) and the text B[p].text, newline, A[p].text. *)
(* As stated, merge(A, B) also differs from merge(B, A) whenever some pair *)
(* of texts differs.                                                       *)
(***************************************************************************)
MergedFromOriginalTiming ==
  (call.fn = "merge_subtitles" /\ call.pc = "returned") =>
    /\ Len(call.result) = Len(call.original)
    /\ \A p \in 1..Len(call.result) :
         /\ call.result[p].index = call.original[p].index
         /\ call.result[p].start = call.original[p].start
         /\ call.result[p].end = call.original[p].end
         /\ call.result[p].text =
              call.translated[p].text \o call.original[p].text

BothMerged ==
  /\ call.fn = "merge_subtitles"
  /\ call.pc = "returned"
  /\ call.swapped.pc = "returned"

MergeNeverCommutesOnDifferentTexts ==
  /\ MergedFromOriginalTiming
  /\ BothMerged =>
       ((\E p \in 1..Len(call.original) :
           call.original[p].text # call.translated[p].text)
        => call.result # call.swapped.result)

(***************************************************************************)
(* C20 as the code has it: the same, with merge(A, B) differing from       *)
(* merge(B, A) whenever at some position the text B[p].text, newline,      *)
(* A[p].text differs from A[p].text, newline, B[p].text, which is so for   *)
(* every two different texts of one line each.                             *)
(***************************************************************************)
MergeCommutesOnlyOnRepeatedLines ==
  /\ MergedFromOriginalTiming
  /\ BothMerged =>
       /\ (\E p \in 1..Len(call.original) :
             call.translated[p].text \o call.original[p].text
               # call.original[p].text \o call.translated[p].text)
          => call.result # call.swapped.result
       /\ (\E p \in 1..Len(call.original) :
             /\ call.original[p].text # call.translated[p].text
             /\ Len(call.original[p].text) = 1
             /\ Len(call.translated[p].text) = 1)
          => call.result # call.swapped.result

\* B's entries carry another index and timing than A's and another text of
\* one line; both merges returned and differ
MergedBothWays ==
  /\ BothMerged
  /\ Len(call.original) = 2
  /\ call.original[1].index = 2
  /\ call.translated[1].index = 1
  /\ call.original[1].text = OrigText(1)
  /\ call.translated[1].text = TransText(1)
  /\ call.result # call.swapped.result
  /\ call.result[1].text = TransText(1) \o OrigText(1)

(***************************************************************************)
(* The SRT codec (formats/srt.py).  A time is a whole number of half       *)
(* milliseconds (a timedelta has microseconds, an SRT time milliseconds).  *)
(* A file is its sequence of lines: the decimal of an index, a timing line *)
(* with its printed fields, or a line of text.                             *)
(***************************************************************************)
IndexLine(n) == <<"int", n>>

\* hours, minutes, seconds of int(total_seconds()) and microseconds // 1000
TimeFields(t) ==
  LET total_seconds == t \div 2000 IN
  <<total_seconds \div 3600, (total_seconds % 3600) \div 60,
    total_seconds % 60, (t % 2000) \div 2>>

TimingLine(start, end) == <<"time", TimeFields(start), TimeFields(end)>>

\* timedelta(hours=, minutes=, seconds=, milliseconds=)
FromFields(f) == ((f[1] * 3600 + f[2] * 60 + f[3]) * 1000 + f[4]) * 2

\* (\d{2}):(\d{2}):(\d{2}),(\d{3}) matches what was printed with :02d and
\* :03d unless the hours took three digits
timing_match(line) ==
  /\ line[1] = "time"
  /\ line[2][1] < 100
  /\ line[3][1] < 100

\* str.strip() of several lines: the whitespace-only lines at both ends
\* go, and the whitespace in front of the first line left
RECURSIVE lstrip_lines(_)
lstrip_lines(lines) ==
  IF Len(lines) = 0 THEN lines
  ELSE IF is_space(lines[1]) THEN lstrip_lines(Tail(lines))
  ELSE IF lines[1][1] = "p"
  THEN << <<"o", lines[1][2]>> >> \o Tail(lines)
  ELSE lines

RECURSIVE rstrip_lines(_)
rstrip_lines(lines) ==
  IF Len(lines) = 0 THEN lines
  ELSE IF is_space(lines[Len(lines)])
  THEN rstrip_lines(SubSeq(lines, 1, Len(lines) - 1))
  ELSE lines

strip_lines(lines) == rstrip_lines(lstrip_lines(lines))

\* re.split(r"\n\n+", ...): two or more newlines in a row are one or more
\* empty lines
RECURSIVE split_blocks(_, _, _)
split_blocks(lines, n, block) ==
  IF n > Len(lines) THEN << block >>
  ELSE IF lines[n] # EmptyLine
  THEN split_blocks(lines, n + 1, Append(block, lines[n]))
  ELSE IF n > 1 /\ lines[n - 1] = EmptyLine
  THEN split_blocks(lines, n + 1, block)
  ELSE << block >> \o split_blocks(lines, n + 1, <<>>)

\* one iteration of the block loop of parse_srt: the entry, or not ok
parse_block(block) ==
  LET lines == strip_lines(block) IN
  IF Len(lines) < 3 THEN [ok |-> FALSE, entry |-> None]
  ELSE IF lines[1][1] # "int" THEN [ok |-> FALSE, entry |-> None]
  ELSE IF ~timing_match(lines[2]) THEN [ok |-> FALSE, entry |-> None]
  ELSE LET entry == [index |-> lines[1][2],
                     start |-> FromFields(lines[2][2]),
                     end |-> FromFields(lines[2][3]),
                     text |-> strip_lines(SubSeq(lines, 3, Len(lines)))]
       IN IF entry_valid(entry) THEN [ok |-> TRUE, entry |-> entry]
          ELSE [ok |-> FALSE, entry |-> None]

\* parse_srt: the entries of the Subtitle, or not ok (SRTParseError)
parse_srt(content) ==
  IF is_blank(content) THEN [ok |-> FALSE, entries |-> <<>>]
  ELSE LET blocks == split_blocks(strip_lines(content), 1, <<>>)
           parsed == [b \in 1..Len(blocks) |-> parse_block(blocks[b])]
       IN IF \E b \in 1..Len(blocks) : ~parsed[b].ok
          THEN [ok |-> FALSE, entries |-> <<>>]
          ELSE LET entries == [b \in 1..Len(blocks) |-> parsed[b].entry] IN
               IF subtitle_valid(entries)
               THEN [ok |-> TRUE, entries |-> entries]
               ELSE [ok |-> FALSE, entries |-> <<>>]

\* serialize_srt: the blocks joined by an empty line
RECURSIVE serialize_srt(_)
serialize_srt(entries) ==
  IF Len(entries) = 0 THEN <<>>
  ELSE LET entry == entries[Len(entries)]
           block == <<IndexLine(entry.index),
                      TimingLine(entry.start, entry.end)>> \o entry.text
           front == SubSeq(entries, 1, Len(entries) - 1)
       IN IF Len(front) = 0 THEN block
          ELSE serialize_srt(front) \o <<EmptyLine>> \o block

\* the Subtitle values tried: times of 0, half a millisecond, 1 ms, 2 s
\* and 100 hours; texts of one line, of two, with a whitespace or an empty
\* line in between, with whitespace in front
SrtTimes == {0, 1, 2, 4000, 720000000}
SrtTexts == {OrigText(1), OrigText(1) \o TransText(1),
             OrigText(1) \o <<BlankLine>> \o TransText(1),
             OrigText(1) \o <<EmptyLine>> \o TransText(1),
             << PaddedLine(1) >>}
SrtShapes == {sh \in [start : SrtTimes, end : SrtTimes, text : SrtTexts] :
                sh.start < sh.end}
SrtSubtitles ==
  {es \in {[p \in 1..Len(q) |-> [index |-> p, start |-> q[p].start,
                                 end |-> q[p].end, text |-> q[p].text]] :
             q \in SeqsUpTo(SrtShapes, MaxSrtEntries)} :
     /\ subtitle_valid(es)
     /\ \A p \in 1..Len(es) : entry_valid(es[p])}

InitSrt ==
  /\ Idle
  /\ \E subtitle \in SrtSubtitles :
       call = [fn |-> "parse_srt(serialize_srt)", pc |-> "called",
               subtitle |-> subtitle, content |-> <<>>, result |-> <<>>,
               exc |-> NoExc]

SerializeSrt ==
  /\ call.fn = "parse_srt(serialize_srt)"
  /\ call.pc = "called"
  /\ call' = [call EXCEPT !.pc = "serialized",
                          !.content = serialize_srt(call.subtitle)]
  /\ UNCHANGED <<job, req, queues, runs, tr, trLog, con, appended, delivered,
                 runLog, stageLog>>

ParseSrt ==
  /\ call.fn = "parse_srt(serialize_srt)"
  /\ call.pc = "serialized"
  /\ LET parsed == parse_srt(call.content) IN
     call' = IF parsed.ok
             THEN [call EXCEPT !.pc = "returned", !.result = parsed.entries]
             ELSE [call EXCEPT !.pc = "raised",
                     !.exc = [kind |-> "SRTParseError", msg |-> "boom"]]
  /\ UNCHANGED <<job, req, queues, runs, tr, trLog, con, appended, delivered,
                 runLog, stageLog>>

SpecSrt == InitSrt /\ [][SerializeSrt \/ ParseSrt]_vars

(***************************************************************************)
(* C21: for every valid Subtitle S, parse_srt(serialize_srt(S)) succeeds   *)
(* and its entries equal those of S in index, start, end and text.         *)
(***************************************************************************)
SrtRoundTrip ==
  (call.fn = "parse_srt(serialize_srt)" /\ call.pc \notin {"called", "serialized"})
    => /\ call.pc = "returned"
       /\ call.result = call.subtitle

\* the text "a", empty line, "b" is written as it is and read back as the
\* end of the block and a block of one line
EmptyLineInTextNotParsed ==
  /\ call.fn = "parse_srt(serialize_srt)"
  /\ call.pc = "raised"
  /\ Len(call.subtitle) = 1
  /\ call.subtitle[1].start = 2
  /\ call.subtitle[1].end = 4000
  /\ call.subtitle[1].text = OrigText(1) \o <<EmptyLine>> \o TransText(1)

(***************************************************************************)
(* SubtitleEntry and Subtitle constructed on their own (core/subtitle.py): *)
(* the entries are built first, from any index 0..3, one of four time      *)
(* ranges and a text that is a wording or whitespace; then the Subtitle of *)
(* them.                                                                   *)
(***************************************************************************)
FieldShapes ==
  [index : 0..3, range : {<<0, 4>>, <<4, 4>>, <<4, 9>>, <<3, 9>>},
   text : {OrigText(1), <<BlankLine>>}]

FieldLists ==
  {[p \in 1..Len(q) |-> [index |-> q[p].index, start |-> q[p].range[1],
                         end |-> q[p].range[2], text |-> q[p].text]] :
     q \in SeqsUpTo(FieldShapes, MaxConstructed)}

InitConstruct ==
  /\ Idle
  /\ \E fields \in FieldLists :
       call = [fn |-> "Subtitle", pc |-> "called", fields |-> fields,
               result |-> <<>>, exc |-> NoExc]

\* SubtitleEntry(index=, start=, end=, text=) for each element
ConstructEntries ==
  /\ call.fn = "Subtitle"
  /\ call.pc = "called"
  /\ call' = IF \A p \in 1..Len(call.fields) : entry_valid(call.fields[p])
             THEN [call EXCEPT !.pc = "entries"]
             ELSE [call EXCEPT !.pc = "raised",
                     !.exc = [kind |-> "ValueError", msg |-> "boom"]]
  /\ UNCHANGED <<job, req, queues, runs, tr, trLog, con, appended, delivered,
                 runLog, stageLog>>

\* Subtitle(entries=)
ConstructSubtitle ==
  /\ call.fn = "Subtitle"
  /\ call.pc = "entries"
  /\ call' = IF subtitle_valid(call.fields)
             THEN [call EXCEPT !.pc = "returned", !.result = call.fields]
             ELSE [call EXCEPT !.pc = "raised",
                     !.exc = [kind |-> "ValueError", msg |-> "boom"]]
  /\ UNCHANGED <<job, req, queues, runs, tr, trLog, con, appended, delivered,
                 runLog, stageLog>>

SpecConstruct == InitConstruct /\ [][ConstructEntries \/ ConstructSubtitle]_vars

(***************************************************************************)
(* C22: a Subtitle is constructed exactly from the entry lists that are    *)
(* not empty, carry the indices 1..N in order, have no entry ending after  *)
(* the start of the next, and in which every entry starts strictly before  *)
(* it ends, has an index of at least 1 and a text that is not blank; for   *)
(* every other list the construction raises ValueError.                    *)
(***************************************************************************)
SubtitleConditions(es) ==
  /\ Len(es) >= 1
  /\ \A p \in 1..Len(es) :
       /\ es[p].index = p
       /\ es[p].index >= 1
       /\ es[p].start < es[p].end
       /\ \E n \in 1..Len(es[p].text) : es[p].text[n] # BlankLine
  /\ \A p \in 1..(Len(es) - 1) : es[p].end <= es[p + 1].start

ConstructedIffConditions ==
  (call.fn = "Subtitle" /\ call.pc \in {"returned", "raised"}) =>
    /\ call.pc = "returned" <=> SubtitleConditions(call.fields)
    /\ call.pc = "returned" => call.result = call.fields
    /\ call.pc = "raised" => call.exc.kind = "ValueError"

\* two entries, the second starting when the first ends: accepted
ConstructedTouchingEntries ==
  /\ call.fn = "Subtitle"
  /\ call.pc = "returned"
  /\ Len(call.result) = 2
  /\ call.result[1].end = 4
  /\ call.result[2].start = 4

(***************************************************************************)
(* C26: the trim is part of the acquisition: the acquisition collaborator  *)
(* is called once, and trim_video is never called afterwards, whether or   *)
(* not the job has a start or an end bound.                                *)
(***************************************************************************)
TrimIsPartOfAcquisition ==
  /\ \A m, n \in 1..Len(stageLog.calls) :
       (stageLog.calls[m] = "acquire" /\ stageLog.calls[n] = "acquire") =>
         m = n
  /\ \A n \in 1..Len(stageLog.calls) : stageLog.calls[n] # "trim"

\* the job with a start bound: trim_video was called after the acquisition
\* and has returned
TrimPassAfterAcquisition ==
  /\ req.start_time # NoTime
  /\ stageLog.calls = <<"acquire", "trim", "extract_audio">>

(***************************************************************************)
(* C25: when translate_subtitle returns for a Subtitle of K entries, the   *)
(* Subtitle it returns has exactly K entries, entry p with the index, the  *)
(* start and the end of input entry p and with the translation of that     *)
(* entry as its text; and no step of the call changes the input Subtitle   *)
(* or one of its entries.                                                  *)
(***************************************************************************)
ReturnedSubtitleOfInput ==
  tr.pc = "returned" =>
    /\ Len(tr.result) = Len(tr.entries)
    /\ \A p \in 1..Len(tr.result) :
         /\ tr.result[p].index = tr.entries[p].index
         /\ tr.result[p].start = tr.entries[p].start
         /\ tr.result[p].end = tr.entries[p].end
         /\ tr.result[p].text = TransText(p)
         /\ tr.entries[p].text = OrigText(p)

TranslateReturnsNewSubtitle ==
  /\ []ReturnedSubtitleOfInput
  /\ [][tr'.entries = tr.entries]_vars

\* returned for eleven entries, the second batch translated one by one
TranslatedElevenEntries ==
  /\ tr.pc = "returned"
  /\ Len(tr.result) = 11
  /\ ~trLog.clean
  /\ tr.result[11].text = TransText(11)

(***************************************************************************)
(* The split entry points: create_job starts run_download, start_subtitle  *)
(* starts run_subtitle (api/routes.py).  The two orchestrators are the     *)
(* acquire and the subtitle halves of the pipeline: acquisition, audio     *)
(* extraction, download_complete; then transcription, translation with     *)
(* the progress callback, merge and serialization, complete.  Every        *)
(* exception of a stage is converted at the outer boundary of the entry    *)
(* point.  One entry is transcribed, and each stage raises its own fault.  *)
(***************************************************************************)
SplitFaults == [acquire |-> [kind |-> "DownloadError", msg |-> "boom"],
                extract_audio |-> [kind |-> "FFmpegError", msg |-> "boom"],
                transcribe |-> [kind |-> "TranscriptionError", msg |-> "boom"],
                translate |-> [kind |-> "TranslationError", msg |-> "boom"],
                merge |-> [kind |-> "ValueError", msg |-> "boom"]]

\* the outer boundary of run_download and of run_subtitle
entry_point_except(w, r, exc) ==
  LET e == to_pipeline_error(exc) IN
  [w |-> send_error(caught(w, r, exc), r, e.code, e.message, e.detail),
   pc |-> "done"]

SplitFails(r, w, exc) ==
  LET h == entry_point_except(w, r, exc) IN
  /\ Commit(h.w)
  /\ runs' = [runs EXCEPT ![r] = RunEnd(@, h.pc)]

\* the end of the acquisition: status download_complete and its event
send_download_complete(w, r) ==
  put_nowait(set_status(w, r, "download_complete"), r,
             Event("download_complete", "download_complete", NoProgress,
                   None, None, None, None), TRUE)

\* run_download up to its first await: _acquire_video
DownloadStart ==
  /\ runs[1].kind = "download"
  /\ runs[1].pc = "created"
  /\ IF req.local_video_path
     THEN Commit(send_progress(World, 1, "downloading", Num(5), "upload",
                               "Processing uploaded file"))
     ELSE Commit(send_progress(World, 1, "downloading", Num(0), "download",
                               "Downloading video"))
  /\ runs' = [runs EXCEPT ![1].pc = "acquire"]
  /\ UNCHANGED <<call, req, tr, trLog, delivered, stageLog>>

\* the acquisition returns or raises; then _extract_audio_step up to its
\* await
DownloadAcquireReturn ==
  /\ runs[1].kind = "download"
  /\ runs[1].pc = "acquire"
  /\ \/ SplitFails(1, World, SplitFaults.acquire)
     \/ /\ Commit(extract_audio_step(World))
        /\ runs' = [runs EXCEPT ![1].pc = "extract_audio",
                      ![1].video_path = IF req.local_video_path THEN "upload"
                                        ELSE "video.mp4"]
  /\ UNCHANGED <<call, req, tr, trLog, delivered, stageLog>>

\* extract_audio returns or raises; then the audio and the source video are
\* recorded and the acquisition ends
DownloadExtractReturn ==
  /\ runs[1].kind = "download"
  /\ runs[1].pc = "extract_audio"
  /\ \/ SplitFails(1, World, SplitFaults.extract_audio)
     \/ /\ Commit(send_download_complete(
             set_output(set_output(World, "audio", "audio.mp3"),
                        "source_video", runs[1].video_path), 1))
        /\ runs' = [runs EXCEPT ![1] = RunEnd(@, "done")]
  /\ UNCHANGED <<call, req, tr, trLog, delivered, stageLog>>

\* StartSubtitleRequest: no body, or a body whose languages are None, empty
\* or a language code
NoBody == [given |-> FALSE, source_lang |-> None, target_lang |-> None]
SubtitleBodies ==
  {NoBody} \cup [given : {TRUE}, source_lang : {None, "", "ja"},
                 target_lang : {None, "ko"}]

\* "if body.source_lang:" is false for None and for the empty string
truthy(lang) == lang \notin {None, ""}

\* faulty variant: a language is replaced by whatever the body carries
start_subtitle_any_language(w, rs, body) ==
  IF w.job.status # "download_complete"
  THEN [answer |-> "Job is not in download_complete state", w |-> w,
        runs |-> rs]
  ELSE [answer |-> "subtitle_started",
        w |-> [w EXCEPT
                 !.job.source_lang = IF body.given THEN body.source_lang
                                     ELSE @,
                 !.job.target_lang = IF body.given THEN body.target_lang
                                     ELSE @,
                 !.runLog = Append(@, RunLogInit)],
        runs |-> Append(rs, RunInit("subtitle"))]

\* The handler runs on the event loop without awaiting.  Its result: the
\* answer to the client (InvalidRequestError or {"status":
\* "subtitle_started"}), and the job and the tasks after it; the task it
\* creates has not run yet when it returns.
start_subtitle(w, rs, body) ==
  IF w.job.status # "download_complete"
  THEN [answer |-> "Job is not in download_complete state", w |-> w,
        runs |-> rs]
  ELSE [answer |-> "subtitle_started",
        w |-> [w EXCEPT
                 !.job.source_lang =
                    IF body.given /\ truthy(body.source_lang)
                    THEN body.source_lang ELSE @,
                 !.job.target_lang =
                    IF body.given /\ truthy(body.target_lang)
                    THEN body.target_lang ELSE @,
                 !.runLog = Append(@, RunLogInit)],
        runs |-> Append(rs, RunInit("subtitle"))]

\* a client posts a subtitle trigger; call is the record of the last one
NoTrigger == [fn |-> "start_subtitle", pc |-> "none", n |-> 0,
              body |-> NoBody, answer |-> None]

TriggerRequest(bodies, limit) ==
  /\ call.n < limit
  /\ \E body \in bodies :
       LET out == start_subtitle(World, runs, body) IN
       /\ Commit(out.w)
       /\ runs' = out.runs
       /\ call' = [call EXCEPT !.pc = "answered", !.n = @ + 1,
                               !.body = body, !.answer = out.answer]
  /\ UNCHANGED <<req, tr, trLog, delivered, stageLog>>

StartSubtitle == TriggerRequest(SubtitleBodies, MaxTriggers)
\* one trigger, posted without a body
StartSubtitleOnce == TriggerRequest({NoBody}, 1)

\* burn requests of the job, while fewer than MaxBurns have been accepted
SplitBurnJob ==
  /\ \A r \in 1..Len(runs) : runs[r].kind # "burn"
  /\ MaxBurns > 0
  /\ \E srt_content \in SrtContents :
       LET out == burn_job(World, runs, srt_content) IN
       /\ Commit(out.w)
       /\ runs' = out.runs
  /\ UNCHANGED <<call, req, tr, trLog, delivered, stageLog>>

\* run_subtitle up to its first await: the transcription is started
SubtitleStart(r) ==
  /\ runs[r].kind = "subtitle"
  /\ runs[r].pc = "created"
  /\ Commit(send_progress(World, r, "transcribing", Num(20), "transcribe",
                          "Transcribing audio"))
  /\ runs' = [runs EXCEPT ![r].pc = "transcribe"]
  /\ UNCHANGED <<call, req, tr, trLog, delivered, stageLog>>

\* transcribe_audio returns or raises; then the translation is started on
\* a worker thread
SubtitleTranscribeReturn(r) ==
  /\ runs[r].kind = "subtitle"
  /\ runs[r].pc = "transcribe"
  /\ \/ SplitFails(r, World, SplitFaults.transcribe)
     \/ /\ Commit(send_progress(World, r, "translating", Num(50),
                                "translate", "Translating subtitles"))
        /\ runs' = [runs EXCEPT ![r].pc = "translate",
                                ![r].original_sub = Transcript(1)]
  /\ UNCHANGED <<call, req, tr, trLog, delivered, stageLog>>

\* the progress callback of the one batch, called on the worker thread
SubtitleTranslateProgress(r) ==
  /\ runs[r].kind = "subtitle"
  /\ runs[r].pc = "translate"
  /\ \E outcome \in PutOutcomes :
       LET w == send_progress_from(World, r, "translating", Num(70),
                  "translate", "Translating subtitles (1/1)",
                  outcome = "wakes")
       IN /\ outcome = "raises" =>
               con.pc = "waiting" /\ con.q = job.event_queue /\ ~con.woken
          /\ IF outcome = "raises"
             THEN SplitFails(r, w, [kind |-> "InvalidStateError",
                                    msg |-> "boom"])
             ELSE /\ Commit(w)
                  /\ runs' = [runs EXCEPT ![r].pc = "translated"]
  /\ UNCHANGED <<call, req, tr, trLog, delivered, stageLog>>

\* translate_subtitle returns or raises; then the merge is started
SubtitleTranslateReturn(r) ==
  /\ runs[r].kind = "subtitle"
  /\ \/ /\ runs[r].pc = "translate"
        /\ SplitFails(r, World, SplitFaults.translate)
     \/ /\ runs[r].pc = "translated"
        /\ Commit(send_progress(World, r, "merging", Num(70), "merge",
                                "Merging bilingual subtitles"))
        /\ runs' = [runs EXCEPT ![r].pc = "merge",
                      ![r].translated_sub =
                         [p \in 1..1 |->
                            translated_entry(runs[r].original_sub[p],
                                             TransText(p))]]
  /\ UNCHANGED <<call, req, tr, trLog, delivered, stageLog>>

\* merge_subtitles returns or raises; then both formats are serialized and
\* stored and the run completes
SubtitleMergeReturn(r) ==
  /\ runs[r].kind = "subtitle"
  /\ runs[r].pc = "merge"
  /\ LET m == merge_subtitles(runs[r].original_sub, runs[r].translated_sub)
     IN \/ SplitFails(r, World, SplitFaults.merge)
        \/ /\ m.ok
           /\ subtitle_valid(m.entries)
           /\ Commit(send_complete(
                set_output(set_output(World, "srt", "subtitle.srt"),
                           "ass", "subtitle.ass"), r))
           /\ runs' = [runs EXCEPT ![r] = RunEnd(@, "done")]
  /\ UNCHANGED <<call, req, tr, trLog, delivered, stageLog>>

RunSubtitle(r) == \/ SubtitleStart(r)
                  \/ SubtitleTranscribeReturn(r)
                  \/ SubtitleTranslateProgress(r)
                  \/ SubtitleTranslateReturn(r)
                  \/ SubtitleMergeReturn(r)

(***************************************************************************)
(* The job from its creation on, with one subtitle trigger and the event   *)
(* stream of a client.                                                     *)
(***************************************************************************)
InitSplit ==
  /\ job = JobInit
  /\ req \in Requests
  /\ queues = << <<>> >>
  /\ runs = << RunInit("download") >>
  /\ tr = TrIdle
  /\ trLog = TrLogInit
  /\ con = ConInit
  /\ appended = << <<>> >>
  /\ delivered = <<>>
  /\ runLog = << RunLogInit >>
  /\ stageLog = StageLogInit
  /\ call = NoTrigger

NextSplit ==
  \/ DownloadStart
  \/ DownloadAcquireReturn
  \/ DownloadExtractReturn
  \/ StartSubtitleOnce
  \/ \E r \in 1..Len(runs) : RunSubtitle(r)
  \/ Connect
  \/ ConsumerGet
  \/ ConsumerWake
  \/ ConsumerTimeout

SpecSplit == InitSplit /\ [][NextSplit]_vars

(***************************************************************************)
(* The job from its creation on, with the requests of its clients: a       *)
(* subtitle trigger and a burn request.  No client reads the event stream. *)
(***************************************************************************)
NextTrigger ==
  \/ DownloadStart
  \/ DownloadAcquireReturn
  \/ DownloadExtractReturn
  \/ StartSubtitleOnce
  \/ SplitBurnJob
  \/ \E r \in 1..Len(runs) : RunSubtitle(r) \/ BurnStart(r) \/ BurnReturn(r)

SpecTrigger == InitSplit /\ [][NextTrigger]_vars

(***************************************************************************)
(* The job from its creation on, with subtitle triggers that carry         *)
(* languages.                                                              *)
(***************************************************************************)
NextLanguage ==
  \/ DownloadStart
  \/ DownloadAcquireReturn
  \/ DownloadExtractReturn
  \/ StartSubtitle
  \/ \E r \in 1..Len(runs) : RunSubtitle(r)

SpecLanguage == InitSplit /\ [][NextLanguage]_vars

(***************************************************************************)
(* C23: an acquisition run that ends without a fault has set the status    *)
(* download_complete last and has put a download_complete event last, and  *)
(* no complete event; until another run is started the job stays in        *)
(* download_complete.  The stream does not end with the download_complete  *)
(* event: after yielding it the generator is back at the head of its loop  *)
(* or waiting for the next event.                                          *)
(***************************************************************************)
AcquisitionEndsDownloadComplete ==
  /\ (runs[1].kind = "download" /\ runs[1].pc = "done"
        /\ runLog[1].exc = NoExc) =>
       LET events == runLog[1].events
           statuses == runLog[1].statuses
       IN /\ events # <<>>
          /\ events[Len(events)].event = "download_complete"
          /\ \A n \in 1..Len(events) : events[n].event # "complete"
          /\ statuses[Len(statuses)] = "download_complete"
          /\ Len(runs) = 1 => job.status = "download_complete"
  /\ con.last.event = "download_complete" => con.pc \in {"top", "waiting"}

\* one connection has delivered the download_complete event and, after it,
\* the first progress event of the subtitle run
SubtitleEventAfterDownloadComplete ==
  /\ con.connects = 1
  /\ \E m, n \in 1..Len(delivered) :
       /\ m < n
       /\ delivered[m].ev.event = "download_complete"
       /\ delivered[n].ev.event = "progress"
       /\ delivered[n].ev.status = "transcribing"

(***************************************************************************)
(* C24: when a subtitle run starts, the queue the job refers to is a fresh *)
(* one: nothing was ever put on it by another run.                         *)
(***************************************************************************)
SubtitleRunStartsOnFreshOutbox ==
  \A r \in 1..Len(runs) :
    (runs[r].kind = "subtitle" /\ runs[r].pc = "created") =>
      \A n \in 1..Len(appended[job.event_queue]) :
        appended[job.event_queue][n].run = r

\* the subtitle run is started on the queue of the acquisition run, with
\* the download_complete event of that run still waiting in it
SubtitleRunOnAcquisitionOutbox ==
  /\ Len(runs) = 2
  /\ runs[2].kind = "subtitle"
  /\ runs[2].pc = "created"
  /\ job.event_queue = 1
  /\ queues[1] # <<>>
  /\ queues[1][Len(queues[1])].event = "download_complete"

(***************************************************************************)
(* C27: at most one run of the job is in flight at any time: a task that   *)
(* was created for the job and has not ended.                              *)
(***************************************************************************)
InFlight == {r \in 1..Len(runs) : runs[r].pc \notin {"done", "raised"}}

AtMostOneRunInFlight == Cardinality(InFlight) <= 1

\* a burn run is burning while the subtitle run is transcribing
BurnDuringSubtitleRun ==
  \E r, b \in 1..Len(runs) :
    /\ runs[r].kind = "subtitle"
    /\ runs[r].pc = "transcribe"
    /\ runs[b].kind = "burn"
    /\ runs[b].pc = "burning"

(***************************************************************************)
(* C30: a subtitle trigger is accepted exactly when the status is          *)
(* download_complete.  A rejected one is answered as an invalid request    *)
(* and changes neither the job (status, languages, outputs, queue) nor the *)
(* queues nor the tasks.  An accepted one creates the subtitle task after  *)
(* replacing each language the body carries and leaving the others as they *)
(* were; a body without a language field, or with an empty one, counts as  *)
(* carrying none.                                                          *)
(***************************************************************************)
Supplied(body, lang) == body.given /\ lang # None /\ lang # ""

TriggerStep ==
  call'.n # call.n =>
    IF job.status = "download_complete"
    THEN /\ call'.answer = "subtitle_started"
         /\ runs' = Append(runs, RunInit("subtitle"))
         /\ runs'[Len(runs')].pc = "created"
         /\ job'.source_lang =
              IF Supplied(call'.body, call'.body.source_lang)
              THEN call'.body.source_lang ELSE job.source_lang
         /\ job'.target_lang =
              IF Supplied(call'.body, call'.body.target_lang)
              THEN call'.body.target_lang ELSE job.target_lang
    ELSE /\ call'.answer = "Job is not in download_complete state"
         /\ job' = job
         /\ runs' = runs
         /\ queues' = queues
         /\ appended' = appended

TriggerAcceptedOnlyWhenDownloaded == [][TriggerStep]_vars

\* a trigger was accepted that replaced the target language only, and a
\* later one was rejected while the subtitle run was in flight
TriggerRejectedDuringSubtitleRun ==
  /\ call.n = 2
  /\ call.answer = "Job is not in download_complete state"
  /\ Len(runs) = 2
  /\ runs[2].pc = "translate"
  /\ job.source_lang = "en"
  /\ job.target_lang = "ko"

(***************************************************************************)
(* C29: every step of the event stream: an event that is delivered is the  *)
(* head of the queue it is taken from; the stream ends exactly when a      *)
(* complete or an error event is delivered, and a stream that has ended    *)
(* delivers nothing more, no keepalive either; a keepalive is delivered    *)
(* only while the queue the generator waits on holds no event.             *)
(***************************************************************************)
StreamStep ==
  /\ delivered' # delivered =>
       /\ Len(delivered') = Len(delivered) + 1
       /\ LET d == delivered'[Len(delivered')] IN
          /\ queues[d.q] # <<>>
          /\ d.ev = Head(queues[d.q])
          /\ con'.pc = IF d.ev.event \in {"complete", "error"} THEN "ended"
                       ELSE "top"
  /\ (con'.pc = "ended" /\ con.pc # "ended") => delivered' # delivered
  /\ con.pc = "ended" => /\ delivered' = delivered
                         /\ con'.pings = con.pings
  /\ con'.pings # con.pings => queues[con.q] = <<>>

StreamEndsAtTerminalEvent == [][StreamStep]_vars

\* the generator waits, not woken, on a queue that holds the progress event
\* the translation callback has put from its worker thread
GetterAsleepOnAvailableEvent ==
  /\ con.pc = "waiting"
  /\ ~con.woken
  /\ con.pings < MaxPings
  /\ queues[con.q] # <<>>
  /\ Head(queues[con.q]).event = "progress"
  /\ Head(queues[con.q]).progress = Num(70)
  /\ Head(queues[con.q]).status = "translating"

(***************************************************************************)
(* The pipeline and the burn runs when every collaborator call eventually  *)
(* returns or raises and the event loop runs every task that is ready: a   *)
(* step of a run that stays enabled is eventually taken.  Nothing is       *)
(* assumed of the clients: they may never connect, never read, never post. *)
(***************************************************************************)
RunStep ==
  \/ PipelineStart
  \/ AcquireReturn
  \/ TrimReturn
  \/ ExtractAudioReturn
  \/ TranscribeReturn
  \/ Translate
  \/ TranslateReturn
  \/ TranslateRaise
  \/ MergeReturn
  \/ \E r \in 1..Len(runs) : BurnStart(r) \/ BurnReturn(r)

FairSpec == Init /\ [][Next]_vars /\ WF_vars(RunStep)

(***************************************************************************)
(* C28: every run that is started eventually ends having set the status    *)
(* completed or failed last and having put its complete or error event     *)
(* last, whatever the clients do.                                          *)
(***************************************************************************)
RunEndedTerminal(r) ==
  /\ r <= Len(runs)
  /\ runs[r].pc \in {"done", "raised"}
  /\ runLog[r].events # <<>>
  /\ runLog[r].events[Len(runLog[r].events)].event \in {"complete", "error"}
  /\ runLog[r].statuses # <<>>
  /\ runLog[r].statuses[Len(runLog[r].statuses)] \in {"completed", "failed"}

EveryRunEndsTerminal ==
  \A r \in 1..(MaxBurns + 1) : (r <= Len(runs)) ~> RunEndedTerminal(r)

\* the pipeline run has ended with the job left in transcribing and a
\* progress event as the last one it put
RunEndedWhileTranscribing ==
  /\ runs[1].pc = "raised"
  /\ job.status = "transcribing"
  /\ runLog[1].events[Len(runLog[1].events)].event = "progress"

(***************************************************************************)
(* partial_retranslate (api/routes.py) up to its await: the guard on the   *)
(* output map, then retranslate_entries on a worker thread.  The job from  *)
(* its creation on, with the burn and the partial-retranslation requests   *)
(* of its clients; no client reads the event stream.                       *)
(***************************************************************************)
\* faulty variant: the model is called whatever the job has recorded
partial_retranslate_unguarded(w) == "model_called"

\* the answer of the guard: InvalidRequestError, or the call of the model
partial_retranslate(w) ==
  IF "source_video" \notin DOMAIN w.job.output_files
  THEN "Pipeline not complete"
  ELSE "model_called"

\* call is the record of the last partial-retranslation request
NoRetranslation == [fn |-> "partial_retranslate", pc |-> "none", n |-> 0,
                    answer |-> None]

RetranslateRequest ==
  /\ call.fn = "partial_retranslate"
  /\ call.n < MaxRetranslations
  /\ call' = [call EXCEPT !.pc = "answered", !.n = @ + 1,
                          !.answer = partial_retranslate(World)]
  /\ UNCHANGED <<job, req, queues, runs, tr, trLog, con, appended, delivered,
                 runLog, stageLog>>

InitGuard ==
  /\ job = JobInit
  /\ req \in Requests
  /\ queues = << <<>> >>
  /\ runs = << RunInit("pipeline") >>
  /\ tr = TrIdle
  /\ trLog = TrLogInit
  /\ con = ConInit
  /\ appended = << <<>> >>
  /\ delivered = <<>>
  /\ runLog = << RunLogInit >>
  /\ stageLog = StageLogInit
  /\ call = NoRetranslation

NextGuard ==
  \/ PipelineStart
  \/ AcquireReturn
  \/ TrimReturn
  \/ ExtractAudioReturn
  \/ TranscribeReturn
  \/ Translate
  \/ TranslateReturn
  \/ TranslateRaise
  \/ MergeReturn
  \/ BurnJob
  \/ \E r \in 1..Len(runs) : BurnStart(r) \/ BurnReturn(r)
  \/ RetranslateRequest

SpecGuard == InitGuard /\ [][NextGuard]_vars

(***************************************************************************)
(* C31: a burn request is accepted, and a partial-retranslation request    *)
(* reaches the model, only when the job's output map holds the source      *)
(* video; a rejected partial-retranslation request changes nothing of the  *)
(* job, its queues or its tasks.  The pipeline run records the source      *)
(* video as it completes, so the job of an accepted burn has a pipeline    *)
(* run that has ended with its complete event.                             *)
(***************************************************************************)
PipelineCompleted ==
  /\ runs[1].pc = "done"
  /\ \E n \in 1..Len(runLog[1].events) : runLog[1].events[n].event = "complete"

GuardStep ==
  /\ Len(runs') > Len(runs) =>
       /\ "source_video" \in DOMAIN job.output_files
       /\ PipelineCompleted
  /\ call'.n # call.n =>
       /\ job' = job /\ runs' = runs /\ queues' = queues
       /\ call'.answer = "model_called" <=>
            "source_video" \in DOMAIN job.output_files
       /\ call'.answer = "model_called" => PipelineCompleted
       /\ call'.answer # "model_called" =>
            call'.answer = "Pipeline not complete"

EmptySingleResult(resp) ==
  /\ ~resp.raises
  /\ ~resp.marker
  /\ \A n \in 1..Len(resp.lines) :
       resp.lines[n].num = NoMatch /\ resp.lines[n].text = BlankLine

EmptyResultStep ==
  /\ (tr.pc = "one_by_one" /\ tr' # tr /\ EmptySingleResult(trLog'.last_response)) =>
       /\ tr'.pc = "raised"
       /\ tr'.exc.kind = "TranslationError"
       /\ tr'.attempt = tr.attempt
       /\ tr'.retry_after = tr.retry_after
       /\ tr'.translated_texts = tr.translated_texts
       /\ trLog'.progress_calls = trLog.progress_calls
       /\ trLog'.batches = trLog.batches
       /\ queues' = queues
  /\ tr.pc = "raised" => tr' = tr /\ trLog' = trLog

EmptyResultRaised ==
  /\ tr.pc = "raised"
  /\ trLog.last_prompt.mode = "single"
  /\ EmptySingleResult(trLog.last_response)

EmptyResultFailsTranslation ==
  /\ [][EmptyResultStep]_vars
  /\ [](EmptyResultRaised =>
          /\ tr.exc.kind = "TranslationError"
          /\ \A n \in 1..Len(trLog.progress_calls) :
               trLog.progress_calls[n][1] <= tr.i)

\* the second batch fell back, its first entry was translated, the second
\* came back as white space and the nine after it were never requested
WhitespaceResultInSecondBatch ==
  /\ tr.pc = "raised"
  /\ tr.i = BATCH_SIZE
  /\ Len(tr.entries) = MaxEntries
  /\ tr.j = 1
  /\ Len(tr.partial) = 1
  /\ trLog.last_prompt.mode = "single"
  /\ trLog.last_response.lines # <<>>
  /\ EmptySingleResult(trLog.last_response)
  /\ Len(trLog.progress_calls) = 1

(***************************************************************************)
(* C33: retranslate_entries gives every target its own retry budget: at    *)
(* most 6 attempts, a sleep of the signalled duration after each of the    *)
(* first 5 rate-limited ones, the count starting again at the next target. *)
(* An empty answer fails the call in the step that receives it.  The call  *)
(* is all or nothing: once the model has been called, a call that does not *)
(* return the map of all targets raises TranslationError.                  *)
(***************************************************************************)
EmptyRetranslation(resp) ==
  /\ ~resp.raises
  /\ ~resp.marker
  /\ \A n \in 1..Len(resp.lines) : resp.lines[n].text = BlankLine

RetranslateRetryStep ==
  /\ (call.pc = "run" /\ EmptyRetranslation(call'.last_response)) =>
       /\ call'.pc = "raised"
       /\ call'.exc.kind = "TranslationError"
  /\ (call.pc = "run" /\ call'.last_response.marker) =>
       IF call.attempt < MAX_RETRIES
       THEN /\ call'.pc = "sleep"
            /\ call'.retry_after = Signalled(call'.last_response)
            /\ call'.n = call.n
       ELSE /\ call'.pc = "raised"
            /\ call'.exc.kind = "TranslationError"
  /\ call.pc = "sleep" => /\ call'.pc = "run"
                          /\ call'.attempt = call.attempt + 1
                          /\ call'.n = call.n
  /\ call'.n # call.n => call'.attempt = 0
  /\ call.pc \in {"raised", "returned"} => call' = call

RetranslateAllOrNothing ==
  /\ call.attempt \in 0..MAX_RETRIES
  /\ call.pc = "returned" => DOMAIN call.results = Targets(call)
  /\ (call.pc = "raised" /\ call.model_called) =>
       call.exc.kind = "TranslationError"

RetranslateRetryPerItem ==
  /\ [][call.fn = "retranslate_entries" => RetranslateRetryStep]_vars
  /\ [](call.fn = "retranslate_entries" => RetranslateAllOrNothing)

\* the first target was translated, the model call for the second raised and
\* its exception left retranslate_entries as it was
RetranslateRaisedServiceError ==
  /\ call.fn = "retranslate_entries"
  /\ call.pc = "raised"
  /\ call.model_called
  /\ call.exc.kind = "OSError"
  /\ Cardinality(DOMAIN call.results) = 1
  /\ Len(call.ordered_indices) = 2

(***************************************************************************)
(* transcribe_audio (core/transcriber.py) for a file above 25 MB: the      *)
(* chunks of split_audio, one _transcribe_single per chunk, the entries    *)
(* shifted and renumbered, and the Subtitle of them.  A timedelta is its   *)
(* number of microseconds; a chunk's offset is a number of seconds.        *)
(***************************************************************************)
\* timedelta(seconds=1) in microseconds
MICROSECONDS == 1000000

\* the Subtitles _transcribe_single can return for a chunk: segments that
\* start at or after the beginning of the chunk
SegmentTimes == {h * (MICROSECONDS \div 2) : h \in 0..MaxSegmentTime}

ChunkSubtitles ==
  {es \in {[p \in 1..Len(q) |-> [index |-> p, start |-> q[p][1],
                                 end |-> q[p][2], text |-> OrigText(p)]] :
             q \in SeqsUpTo(SegmentTimes \X SegmentTimes, MaxSegments)} :
     /\ \A p \in 1..Len(es) : entry_valid(es[p])
     /\ subtitle_valid(es)}

\* the (chunk_path, time_offset) list of split_audio (offset = 0.0, then
\* offset += chunk_duration for each chunk) together with what the
\* transcription service answers for each chunk
ChunkLists(limit) ==
  {[c \in 1..Len(q) |-> <<(c - 1) * chunk_duration, q[c]>>] :
     q \in SeqsUpTo(ChunkSubtitles, limit) \ {<<>>},
     chunk_duration \in 1..MaxChunkDuration}

\* faulty variant: the entry keeps the times it has within its chunk
shifted_entry_unshifted(entry, idx, time_offset) ==
  [index |-> idx, start |-> entry.start, end |-> entry.end,
   text |-> entry.text]

\* SubtitleEntry(index=idx, start=entry.start + offset_td,
\* end=entry.end + offset_td, text=entry.text)
shifted_entry(entry, idx, time_offset) ==
  LET offset_td == time_offset * MICROSECONDS
  IN [index |-> idx, start |-> entry.start + offset_td,
      end |-> entry.end + offset_td, text |-> entry.text]

InitStitch ==
  /\ Idle
  /\ \E chunks \in ChunkLists(MaxChunks) :
       call = [fn |-> "transcribe_audio", pc |-> "chunk", chunks |-> chunks,
               c |-> 0, all_entries |-> <<>>, idx |-> 1, result |-> <<>>,
               exc |-> NoExc]

\* one pass of the loop over the chunks: _transcribe_single raises, or its
\* entries are appended
TranscribeChunk ==
  /\ call.fn = "transcribe_audio"
  /\ call.pc = "chunk"
  /\ LET time_offset == call.chunks[call.c + 1][1]
         subtitle == call.chunks[call.c + 1][2]
         added == [p \in 1..Len(subtitle) |->
                     shifted_entry(subtitle[p], call.idx + p - 1, time_offset)]
     IN \/ call' = [call EXCEPT !.pc = "raised",
                      !.exc = [kind |-> "TranscriptionError", msg |-> "boom"]]
        \/ call' = IF \A p \in 1..Len(added) : entry_valid(added[p])
                   THEN [call EXCEPT
                           !.all_entries = @ \o added,
                           !.idx = @ + Len(added),
                           !.c = @ + 1,
                           !.pc = IF call.c + 1 < Len(call.chunks)
                                  THEN "chunk" ELSE "stitched"]
                   ELSE [call EXCEPT !.pc = "raised",
                           !.exc = [kind |-> "ValueError", msg |-> "boom"]]
  /\ UNCHANGED <<job, req, queues, runs, tr, trLog, con, appended, delivered,
                 runLog, stageLog>>

\* return Subtitle(entries=all_entries)
TranscribeStitched ==
  /\ call.fn = "transcribe_audio"
  /\ call.pc = "stitched"
  /\ call' = IF subtitle_valid(call.all_entries)
             THEN [call EXCEPT !.pc = "returned", !.result = call.all_entries]
             ELSE [call EXCEPT !.pc = "raised",
                     !.exc = [kind |-> "ValueError", msg |-> "boom"]]
  /\ UNCHANGED <<job, req, queues, runs, tr, trLog, con, appended, delivered,
                 runLog, stageLog>>

NextStitch == TranscribeChunk \/ TranscribeStitched

SpecStitch == InitStitch /\ [][NextStitch]_vars

(***************************************************************************)
(* C34: what transcribe_audio returns for chunks is the entries of the     *)
(* chunks in chunk order, each with its start and end moved by the offset  *)
(* of its chunk and its text as it was, numbered 1..M.  When the moved     *)
(* entries of every chunk end no later than the offset of the next chunk,  *)
(* the Subtitle constructor accepts them: the call then fails only if a    *)
(* chunk's transcription fails.                                            *)
(***************************************************************************)
RECURSIVE EntriesBefore(_, _)
EntriesBefore(chunks, c) ==
  IF c <= 1 THEN 0 ELSE EntriesBefore(chunks, c - 1) + Len(chunks[c - 1][2])

ChunksFit(chunks) ==
  \A c \in 1..(Len(chunks) - 1) : \A p \in 1..Len(chunks[c][2]) :
    chunks[c][2][p].end + chunks[c][1] * MICROSECONDS
      <= chunks[c + 1][1] * MICROSECONDS

StitchedInChunkOrder ==
  call.fn = "transcribe_audio" =>
    /\ call.pc = "returned" =>
         LET chunks == call.chunks
             M == EntriesBefore(chunks, Len(chunks) + 1)
         IN /\ Len(call.result) = M
            /\ subtitle_valid(call.result)
            /\ \A c \in 1..Len(chunks) : \A p \in 1..Len(chunks[c][2]) :
                 LET k == EntriesBefore(chunks, c) + p
                     e == chunks[c][2][p]
                 IN /\ call.result[k].index = k
                    /\ call.result[k].start
                         = e.start + chunks[c][1] * MICROSECONDS
                    /\ call.result[k].end = e.end + chunks[c][1] * MICROSECONDS
                    /\ call.result[k].text = e.text
    /\ (call.pc = "raised" /\ ChunksFit(call.chunks)) =>
         call.exc.kind = "TranscriptionError"
    /\ (call.pc = "stitched" /\ ChunksFit(call.chunks)) =>
         subtitle_valid(call.all_entries)

\* two chunks of two segments each, the second chunk one second in: four
\* entries, the third and fourth moved by a second
StitchedTwoChunks ==
  /\ call.fn = "transcribe_audio"
  /\ call.pc = "returned"
  /\ Len(call.chunks) = 2
  /\ call.chunks[2][1] = 1
  /\ Len(call.chunks[1][2]) = 2
  /\ Len(call.chunks[2][2]) = 2
  /\ call.chunks[1][2][2].end = MICROSECONDS
  /\ Len(call.result) = 4
  /\ call.result[3].index = 3
  /\ call.result[3].start = MICROSECONDS
  /\ call.chunks[2][2][1].start = 0
  /\ ChunksFit(call.chunks)

(***************************************************************************)
(* The pipeline run and a burn after it, with transcripts of up to three   *)
(* translation batches; no client reads the event stream.                  *)
(***************************************************************************)
NextProgress ==
  \/ PipelineStart
  \/ AcquireReturn
  \/ TrimReturn
  \/ ExtractAudioReturn
  \/ TranscribeReturnLong
  \/ Translate
  \/ TranslateReturn
  \/ TranslateRaise
  \/ MergeReturn
  \/ BurnJob
  \/ \E r \in 1..Len(runs) : BurnStart(r) \/ BurnReturn(r)

SpecProgress == Init /\ [][NextProgress]_vars

(***************************************************************************)
(* C35: among the events one run appends, the progress values of the       *)
(* progress and complete events never decrease; the event of a translation *)
(* callback carries 50 + 20 * completed / total, between 50 and 70; only a *)
(* complete event carries 100; and job.progress is the value of the last   *)
(* progress or complete event the latest run has appended.                 *)
(***************************************************************************)
CarriesProgress(ev) == ev.event \in {"progress", "complete"}

ProgressIn(r) == SelectSeq(Events(r), CarriesProgress)

ProgressState ==
  /\ \A r \in Runs :
       LET pe == ProgressIn(r) IN
       /\ \A m, n \in 1..Len(pe) :
            m < n => FracLE(pe[m].progress, pe[n].progress)
       /\ \A n \in 1..Len(pe) :
            /\ FracLE(Num(0), pe[n].progress)
            /\ FracLE(pe[n].progress, Num(100))
            /\ pe[n].progress = Num(100) <=> pe[n].event = "complete"
            /\ pe[n].status = "translating" =>
                 /\ FracLE(Num(50), pe[n].progress)
                 /\ FracLE(pe[n].progress, Num(70))
  /\ LET pe == ProgressIn(Len(runs)) IN
     Len(pe) > 0 => job.progress = Last(pe).progress

TranslationProgressStep ==
  Len(trLog'.progress_calls) > Len(trLog.progress_calls) =>
    LET pc == Last(trLog'.progress_calls)
        ev == Last(Events(1)')
    IN /\ Len(Events(1)') = Len(Events(1)) + 1
       /\ ev.event = "progress"
       /\ ev.status = "translating"
       /\ ev.progress.n * pc[2] = (50 * pc[2] + 20 * pc[1]) * ev.progress.d
       /\ job'.progress = ev.progress

ProgressNeverDecreases ==
  /\ []ProgressState
  /\ [][TranslationProgressStep]_vars

\* the run of a 21-entry transcript completed: its translation events carry
\* 50, 50 + 200/21, 50 + 400/21 and 70
ProgressOfThreeBatches ==
  /\ Succeeded(1)
  /\ \E n \in 1..(Len(Events(1)) - 3) :
       /\ Events(1)[n].progress = Num(50)
       /\ Events(1)[n + 1].progress = Frac(1250, 21)
       /\ Events(1)[n + 2].progress = Frac(1450, 21)
       /\ Events(1)[n + 3].progress = Num(70)
  /\ job.progress = Num(100)

(***************************************************************************)
(* JobManager (api/jobs.py): the registry _jobs, create_job, get_job and   *)
(* cleanup_expired, with the monotonic clock and the status the run of a   *)
(* job gives it.  A Job is its created_at and status here; ids are         *)
(* numbered in the order of creation.                                      *)
(***************************************************************************)
\* what the clock advances by between two readings
Elapsed == {1, CLEANUP_INTERVAL_SECONDS, JOB_TTL_SECONDS - CLEANUP_INTERVAL_SECONDS}

\* faulty variant: a job expires as its age reaches the lifetime
expired_from_ttl(jobs, now) ==
  {jid \in DOMAIN jobs : now - jobs[jid].created_at >= JOB_TTL_SECONDS}

\* [jid for jid, job in self._jobs.items()
\*  if now - job.created_at > JOB_TTL_SECONDS]
expired(jobs, now) ==
  {jid \in DOMAIN jobs : now - jobs[jid].created_at > JOB_TTL_SECONDS}

\* self._jobs.get(job_id); NoJob stands for None
NoJob == [created_at |-> NoTime, status |-> None]
get_job(jobs, job_id) == IF job_id \in DOMAIN jobs THEN jobs[job_id] ELSE NoJob

InitCleanup ==
  /\ Idle
  /\ call = [fn |-> "JobManager", jobs |-> [x \in {} |-> None], now |-> 0,
             ticks |-> 0, created |-> 0, sweeps |-> 0, returned |-> 0]

\* create_job: Job(...) with created_at = time.monotonic(), stored under a
\* new id
CreateJob ==
  /\ call.fn = "JobManager"
  /\ call.created < MaxJobs
  /\ LET job_id == call.created + 1
         new == [created_at |-> call.now, status |-> "pending"]
     IN call' = [call EXCEPT
                   !.created = job_id,
                   !.jobs = [x \in (DOMAIN call.jobs) \cup {job_id} |->
                               IF x = job_id THEN new ELSE call.jobs[x]]]
  /\ UNCHANGED <<job, req, queues, runs, tr, trLog, con, appended, delivered,
                 runLog, stageLog>>

\* the run of a job gives it its next status; the run holds the Job object
\* itself and goes on when the registry has dropped it
JobStatusNext == [pending |-> {"translating"},
                  translating |-> {"completed", "failed"},
                  completed |-> {}, failed |-> {}]

RunAdvances ==
  /\ call.fn = "JobManager"
  /\ \E job_id \in DOMAIN call.jobs :
       \E status \in JobStatusNext[call.jobs[job_id].status] :
         call' = [call EXCEPT !.jobs[job_id].status = status]
  /\ UNCHANGED <<job, req, queues, runs, tr, trLog, con, appended, delivered,
                 runLog, stageLog>>

\* time passes
ClockAdvances ==
  /\ call.fn = "JobManager"
  /\ call.ticks < MaxTicks
  /\ \E d \in Elapsed : call' = [call EXCEPT !.now = @ + d, !.ticks = @ + 1]
  /\ UNCHANGED <<job, req, queues, runs, tr, trLog, con, appended, delivered,
                 runLog, stageLog>>

CleanupExpired ==
  /\ call.fn = "JobManager"
  /\ LET now == call.now
         gone == expired(call.jobs, now)
     IN call' = [call EXCEPT
                   !.jobs = [x \in (DOMAIN call.jobs) \ gone |-> call.jobs[x]],
                   !.sweeps = (@ + 1) % 2,
                   !.returned = Cardinality(gone)]
  /\ UNCHANGED <<job, req, queues, runs, tr, trLog, con, appended, delivered,
                 runLog, stageLog>>

NextCleanup == CreateJob \/ RunAdvances \/ ClockAdvances \/ CleanupExpired

SpecCleanup == InitCleanup /\ [][NextCleanup]_vars

(***************************************************************************)
(* C36: a sweep removes exactly the jobs older than JOB_TTL_SECONDS at the *)
(* time of the sweep, in flight or not, and returns how many they were; a  *)
(* job of age JOB_TTL_SECONDS or less stays; get_job then returns None for *)
(* a removed id and the unchanged record for a kept one.                   *)
(***************************************************************************)
Age(c, job_id) == c.now - c.jobs[job_id].created_at

SweepStep ==
  (call.fn = "JobManager" /\ call'.sweeps # call.sweeps) =>
    /\ \A job_id \in DOMAIN call.jobs :
         IF Age(call, job_id) > JOB_TTL_SECONDS
         THEN get_job(call'.jobs, job_id) = NoJob
         ELSE get_job(call'.jobs, job_id) = call.jobs[job_id]
    /\ DOMAIN call'.jobs \subseteq DOMAIN call.jobs
    /\ call'.returned =
         Cardinality({job_id \in DOMAIN call.jobs :
                        Age(call, job_id) > JOB_TTL_SECONDS})
    /\ call'.returned = Cardinality(DOMAIN call.jobs)
                          - Cardinality(DOMAIN call'.jobs)

SweepRemovesExactlyExpired == [][SweepStep]_vars

\* a sweep removed the job of age 1801 and kept the job of age 1800, whose
\* run is translating
SweptAtTheBoundary ==
  /\ call.fn = "JobManager"
  /\ call.sweeps = 1
  /\ call.returned = 1
  /\ call.now = JOB_TTL_SECONDS + 1
  /\ DOMAIN call.jobs = {2}
  /\ call.jobs[2].created_at = 1
  /\ call.jobs[2].status = "translating"

(***************************************************************************)
(* get_job_status (api/routes.py): the answer to GET /jobs/{job_id}; its   *)
(* error is given when job.error_code is a non-empty string.               *)
(***************************************************************************)
get_job_status(j) ==
  [status |-> j.status, progress |-> j.progress,
   current_step |-> j.current_step,
   error |-> IF truthy(j.error_code)
             THEN [given |-> TRUE, code |-> j.error_code,
                   message |-> j.error_message, detail |-> j.error_detail]
             ELSE [given |-> FALSE, code |-> None, message |-> None,
                   detail |-> None],
   output_files |-> j.output_files]

(***************************************************************************)
(* C37: the error fields of a job are set exactly while its status is      *)
(* failed, so a status query reports an error if and only if it reports    *)
(* the status failed; a burn accepted after a failed burn is no exception. *)
(***************************************************************************)
ErrorIffFailed ==
  /\ job.error_code # None <=> job.status = "failed"
  /\ job.error_message # None <=> job.status = "failed"
  /\ get_job_status(job).error.given <=> get_job_status(job).status = "failed"

\* the second burn of a job whose first burn failed has completed, and the
\* status query still reports the error of the first
ErrorReportedWhenCompleted ==
  /\ job.status = "completed"
  /\ get_job_status(job).error.given
  /\ get_job_status(job).error.code = "burn_failed"
  /\ Len(runs) = 3
  /\ "video" \in DOMAIN job.output_files

(***************************************************************************)
(* C38: no text taken from a batch response is blank, so once the progress *)
(* callback has been given (K, K) translate_subtitle returns; and when a   *)
(* call that holds a blank translation fails, it fails with                *)
(* TranslationError and the job with translation_failed.                   *)
(***************************************************************************)
HoldsBlankTranslation(t) ==
  \E p \in 1..Len(t.translated_texts) : is_blank(t.translated_texts[p])

FinalCallbackMade ==
  /\ Len(trLog.progress_calls) > 0
  /\ Last(trLog.progress_calls) = <<Len(tr.entries), Len(tr.entries)>>

BlankTranslationState ==
  /\ ~HoldsBlankTranslation(tr)
  /\ FinalCallbackMade => tr.pc # "raised"
  /\ (tr.pc = "raised" /\ HoldsBlankTranslation(tr)) =>
       tr.exc.kind = "TranslationError"

BlankTranslationStep ==
  (tr.pc = "raised" /\ HoldsBlankTranslation(tr) /\ job'.status = "failed") =>
    job'.error_code = "translation_failed"

BlankTranslationIsParseFailure ==
  /\ []BlankTranslationState
  /\ [][BlankTranslationStep]_vars

\* the batch response for two entries had white space as its first text: the
\* callback was given (2, 2), SubtitleEntry then raised ValueError and the
\* job failed with invalid_input
BlankTranslationFailedAsInvalidInput ==
  /\ job.status = "failed"
  /\ job.error_code = "invalid_input"
  /\ stageLog.raised = "translate"
  /\ runLog[1].exc.kind = "ValueError"
  /\ \E n \in 1..Len(Events(1)) :
       /\ Events(1)[n].event = "progress"
       /\ Events(1)[n].message = "Translating subtitles (2/2)"
       /\ Events(1)[n].progress = Num(70)
====
